---- MODULE Spec2Model ----
(***************************************************************************)
(* Model of the edge-sync-service storage helpers (core/storage/storage.go)*)
(* and of the REST API server (base package).                              *)
(*                                                                         *)
(* Go strings that the code parses (destination list entries) are modelled *)
(* as tuples of one-character strings so that strings.Split is computed.   *)
(***************************************************************************)
EXTENDS Integers, Sequences, FiniteSets, TLC

(***************************************************************************)
(* Bounds                                                                  *)
(***************************************************************************)
\* longest stored destination list of an object
MaxOld == 2
\* longest destinationsList handed to the resolver
MaxList == 2

(***************************************************************************)
(* State                                                                   *)
(***************************************************************************)
VARIABLES
    notification,       \* the notification record handed to resendNotification
    retrieveReceived,   \* the retrieveReceived argument
    resendCalled,       \* TRUE once resendNotification has been evaluated
    resendResult,       \* the boolean it returned
    destStore,          \* registered destinations and the object's stored destination list
    dcall,              \* the last resolver call: its inputs and what it returned
    Running,            \* common.Running, the process-wide running flag
    nodeType,           \* common.Configuration.NodeType
    apiReq,             \* the API request being answered ("none" when idle)
    apiResp,            \* what its handler did: headers written, auth calls, core calls
    waitingOnBlockChannel, \* base.waitingOnBlockChannel, set by BlockUntilShutdown
    blockedBefore,      \* its value before the first shutdown request
    restarts,           \* the goroutines started by handleShutdown
    leaderDoc,          \* the leader record in the store
    css,                \* each CSS instance: its election state and the version it observed
    now,                \* the time, in heartbeat periods
    updateLog,          \* the UpdateLeader calls made so far and what they returned
    missedHeartbeat,    \* TRUE once a leader let a heartbeat period pass without its update
    object,             \* the stored object's expected and remaining consumers and receivers
    decrements,         \* what the Decrement calls returned since the counter was last set
    delivery,           \* the delivery status of the object for each of its destinations
    lastAck,            \* the last UpdateObjectDeliveryStatus call and what it returned
    ackLog,             \* the deleted acknowledgements so far, in order, with what was returned
    received,           \* the object being received: its data, its received chunks, its status
    lastAppend,         \* the last AppendObjectData call: the chunk and the object before it
    appendOrder,        \* the offsets of the chunks written, in the order they were written
    storedObject,       \* the stored record of one object key: instance, status, destinations, notifications
    lastStore,          \* the last object create/update: its input, its result, the record before it
    acl,                \* the stored ACL of one (aclType, orgID, key)
    aclLog,             \* the add and remove operations made on it, in order
    lastACLGet,         \* the answer to a GET of the ACL made since the last operation
    Configuration,      \* common.Configuration
    SingleOrgCSS,       \* common.SingleOrgCSS
    validations,        \* the ValidateConfig calls so far: the error and the configuration before and after
    idArgs,             \* two triples handed to a collection ID function
    idResult            \* the function called and the two IDs it returned

resendVars == <<notification, retrieveReceived, resendCalled, resendResult>>
destVars == <<destStore, dcall>>
apiVars == <<Running, nodeType, apiReq, apiResp>>
shutdownVars == <<waitingOnBlockChannel, blockedBefore, restarts>>
leaderVars == <<leaderDoc, css, now, updateLog, missedHeartbeat>>
counterVars == <<object, decrements>>
deliveryVars == <<delivery, lastAck, ackLog>>
chunkVars == <<received, lastAppend, appendOrder>>
instanceVars == <<storedObject, lastStore>>
coreVars == <<shutdownVars, leaderVars, counterVars, deliveryVars, chunkVars>>
aclVars == <<acl, aclLog, lastACLGet>>
configVars == <<Configuration, SingleOrgCSS, validations>>
idVars == <<idArgs, idResult>>
storeVars == <<instanceVars, aclVars, configVars, idVars>>
extVars == <<coreVars, storeVars>>
vars == <<resendVars, destVars, apiVars, extVars>>

\* what the shutdown goroutines leave alone
ShutdownFrame == <<resendVars, destVars, nodeType, apiReq, apiResp, leaderVars, counterVars, deliveryVars, chunkVars, storeVars>>

\* what the leader election leaves alone
LeaderFrame == <<resendVars, destVars, apiVars, shutdownVars, counterVars, deliveryVars, chunkVars, storeVars>>

\* what the consumer and receiver counters leave alone
CounterFrame == <<resendVars, destVars, apiVars, shutdownVars, leaderVars, deliveryVars, chunkVars, storeVars>>

\* what the delivery statuses leave alone
DeliveryFrame == <<resendVars, destVars, apiVars, shutdownVars, leaderVars, counterVars, chunkVars, storeVars>>

\* what the chunked transfer leaves alone
ChunkFrame == <<resendVars, destVars, apiVars, shutdownVars, leaderVars, counterVars, deliveryVars, storeVars>>

\* what an object create/update leaves alone
InstanceFrame == <<resendVars, destVars, apiVars, coreVars, aclVars, configVars, idVars>>

\* what the ACL operations leave alone
ACLFrame == <<resendVars, destVars, apiVars, coreVars, instanceVars, configVars, idVars>>

\* what ValidateConfig leaves alone
ConfigFrame == <<resendVars, destVars, apiVars, coreVars, instanceVars, aclVars, idVars>>

\* what the collection ID functions leave alone
IDFrame == <<resendVars, destVars, apiVars, coreVars, instanceVars, aclVars, configVars>>

(***************************************************************************)
(* Generic helpers                                                         *)
(***************************************************************************)
SeqsUpTo(S, n) == UNION {[1..k -> S] : k \in 0..n}

Range(s) == {s[i] : i \in 1..Len(s)}

(***************************************************************************)
(* Notification statuses (common package constants used by storage.go)     *)
(***************************************************************************)
Update == "update"
Updated == "updated"
Consumed == "consumed"
Getdata == "getdata"
Data == "data"
Delete == "delete"
Deleted == "deleted"
Received == "received"
ReceivedByDestination == "receivedByDestination"
ErrorStatus == "error"
Pending == "pending"

NotificationStatuses ==
    {Update, Updated, Consumed, Getdata, Data, Delete, Deleted, Received,
     ReceivedByDestination, ErrorStatus, Pending,
     "updatePending", "consumedPending", "deletePending", "receivedPending"}

\* keys of the notifications kept for one destination
NotificationKeys == {"obj1", "obj2", "obj3"}

resendNotification_NoReceivedGuard(n, rr) ==
    LET s == n.Status
    IN  \/ s = Update \/ s = Consumed \/ s = Getdata \/ s = Delete
        \/ s = Deleted \/ s = Received
        \/ (s = Data \/ s = ReceivedByDestination)

resendNotification(n, rr) ==
    LET s == n.Status
    IN  \/ s = Update \/ s = Consumed \/ s = Getdata \/ s = Delete
        \/ s = Deleted \/ s = Received
        \/ (rr /\ (s = Data \/ s = ReceivedByDestination))

\* one evaluation of resendNotification, as made by RetrieveNotifications
\* for every stored notification of the destination
CallResendNotification ==
    /\ \E n \in [ObjectID : NotificationKeys, Status : NotificationStatuses],
          rr \in BOOLEAN :
            /\ notification' = n
            /\ retrieveReceived' = rr
            /\ resendCalled' = TRUE
            /\ resendResult' = resendNotification(n, rr)
    /\ UNCHANGED <<destVars, apiVars, extVars>>

(***************************************************************************)
(* Destination resolution (storage.go: createDestinationFromList,          *)
(* compareDestinations, createDestinationsFromMeta, createDestinations)    *)
(***************************************************************************)
Nil == "nil"
InvalidRequest == "InvalidRequest"
StorageError == "Error"
NotFound == "NotFound"

\* Go strings as tuples of characters
EmptyString == <<>>
TypeT == <<"T">>
TypeU == <<"U">>
IdA == <<"a">>
IdB == <<"b">>
OrgID == "org1"

Destination(t, i) == [DestOrgID |-> OrgID, DestType |-> t, DestID |-> i]

\* the destinations that can be registered, in the order the store lists them
DestOrder == <<Destination(TypeT, IdA), Destination(TypeT, IdB), Destination(TypeU, IdA)>>
AllDests == Range(DestOrder)

\* delivery statuses a stored destination entry can carry
DeliveryStatuses == {Pending, "delivered"}
StoreDestinationStatus == [Destination : AllDests, Status : DeliveryStatuses]

\* entries an application can put into destinationsList
ListEntries == {<<"T", ":", "a">>, <<"T", ":", "b">>, <<"U", ":", "a">>, <<"T", "a">>}

MetaDatas ==
    [DestOrgID : {OrgID}, DestType : {EmptyString, TypeT, TypeU},
     DestID : {EmptyString, IdA, IdB},
     DestinationsList : SeqsUpTo(ListEntries, MaxList),
     DestinationPolicy : {Nil, "policy"}, NoData : BOOLEAN]

\* strings.Split(s, sep) for a one-character separator
RECURSIVE Split(_, _)
Split(s, sep) ==
    IF s = <<>> THEN << <<>> >>
    ELSE LET rest == Split(Tail(s), sep)
         IN  IF Head(s) = sep
             THEN << <<>> >> \o rest
             ELSE << <<Head(s)>> \o Head(rest) >> \o Tail(rest)

\* store.RetrieveDestination: (*Destination, error); the pointer is a
\* sequence of length 0 (nil) or 1
RetrieveDestination(store, orgID, destType, destID) ==
    LET d == [DestOrgID |-> orgID, DestType |-> destType, DestID |-> destID]
    IN  IF store.failing THEN [dest |-> <<>>, err |-> StorageError]
        ELSE IF d \in store.dests THEN [dest |-> <<d>>, err |-> Nil]
        ELSE [dest |-> <<>>, err |-> NotFound]

\* store.RetrieveDestinations: all destinations of the org with destType,
\* all destinations of the org when destType is empty
RetrieveDestinations(store, orgID, destType) ==
    IF store.failing THEN [dests |-> <<>>, err |-> StorageError]
    ELSE [dests |-> SelectSeq(DestOrder, LAMBDA d :
                        /\ d \in store.dests
                        /\ d.DestOrgID = orgID
                        /\ (destType = EmptyString \/ d.DestType = destType)),
          err |-> Nil]

\* store.GetObjectDestinationsList: the stored list, nil when there is none
GetObjectDestinationsList(store) ==
    IF store.failing \/ ~store.hasList
    THEN [isNil |-> TRUE, list |-> <<>>]
    ELSE [isNil |-> FALSE, list |-> store.objDests]

RECURSIVE createDestinationFromListLoop(_, _, _, _)
createDestinationFromListLoop(orgID, store, destinationsList, dests) ==
    IF destinationsList = <<>> THEN [dests |-> dests, err |-> Nil]
    ELSE LET parts == Split(Head(destinationsList), ":")
         IN  IF Len(parts) = 2
             THEN LET r == RetrieveDestination(store, orgID, parts[1], parts[2])
                  IN  IF r.err = Nil /\ r.dest # <<>>
                      THEN createDestinationFromListLoop(orgID, store, Tail(destinationsList),
                               Append(dests, [Destination |-> r.dest[1], Status |-> Pending]))
                      ELSE IF r.err = NotFound
                           THEN [dests |-> <<>>, err |-> InvalidRequest]
                           ELSE [dests |-> <<>>, err |-> StorageError]
             ELSE [dests |-> <<>>, err |-> InvalidRequest]

\* variant: an entry that is not found is skipped instead of failing the call
RECURSIVE createDestinationFromList_SkipMissingLoop(_, _, _, _)
createDestinationFromList_SkipMissingLoop(orgID, store, destinationsList, dests) ==
    IF destinationsList = <<>> THEN [dests |-> dests, err |-> Nil]
    ELSE LET parts == Split(Head(destinationsList), ":")
         IN  IF Len(parts) = 2
             THEN LET r == RetrieveDestination(store, orgID, parts[1], parts[2])
                  IN  IF r.err = Nil /\ r.dest # <<>>
                      THEN createDestinationFromList_SkipMissingLoop(orgID, store,
                               Tail(destinationsList),
                               Append(dests, [Destination |-> r.dest[1], Status |-> Pending]))
                      ELSE IF r.err = NotFound
                           THEN createDestinationFromList_SkipMissingLoop(orgID, store,
                                    Tail(destinationsList), dests)
                           ELSE [dests |-> <<>>, err |-> StorageError]
             ELSE [dests |-> <<>>, err |-> InvalidRequest]

createDestinationFromList_SkipMissing(orgID, store, destinationsList) ==
    createDestinationFromList_SkipMissingLoop(orgID, store, destinationsList, <<>>)

createDestinationFromList(orgID, store, destinationsList) ==
    createDestinationFromListLoop(orgID, store, destinationsList, <<>>)

\* index of the first entry of list whose Destination equals dest, 0 if none
IndexOfDest(list, dest) ==
    LET hits == {i \in 1..Len(list) : list[i].Destination = dest}
    IN  IF hits = {} THEN 0 ELSE CHOOSE i \in hits : \A j \in hits : i <= j

\* first loop of compareDestinations: over oldList
RECURSIVE compareOldLoop(_, _, _, _)
compareOldLoop(oldList, newList, useOldStatus, deletedDests) ==
    IF oldList = <<>> THEN [newList |-> newList, deletedDests |-> deletedDests]
    ELSE LET dest == Head(oldList)
             index == IndexOfDest(newList, dest.Destination)
         IN  IF index # 0
             THEN compareOldLoop(Tail(oldList),
                      IF useOldStatus THEN [newList EXCEPT ![index] = dest] ELSE newList,
                      useOldStatus, deletedDests)
             ELSE compareOldLoop(Tail(oldList), newList, useOldStatus,
                      Append(deletedDests, dest))

\* second loop of compareDestinations: over the indices of newList
RECURSIVE compareNewLoop(_, _, _, _, _)
compareNewLoop(index, oldList, newList, useOldStatus, addedDests) ==
    IF index > Len(newList) THEN [newList |-> newList, addedDests |-> addedDests]
    ELSE LET newDest == newList[index]
             found == IndexOfDest(oldList, newDest.Destination)
         IN  IF found # 0
             THEN compareNewLoop(index + 1, oldList,
                      IF useOldStatus THEN [newList EXCEPT ![index] = oldList[found]] ELSE newList,
                      useOldStatus, addedDests)
             ELSE compareNewLoop(index + 1, oldList, newList, useOldStatus,
                      Append(addedDests, newDest))

\* variant: the deleted list is computed against the old list itself
compareDestinations_DeletedFromNew(oldList, newList, useOldStatus) ==
    LET first == compareOldLoop(oldList, newList, useOldStatus, <<>>)
        second == compareNewLoop(1, oldList, first.newList, useOldStatus, <<>>)
        swapped == compareOldLoop(newList, oldList, FALSE, <<>>)
    IN  [dests |-> second.newList, deletedDests |-> swapped.deletedDests,
         addedDests |-> second.addedDests]

\* variant: every entry of the new list is reported as added
compareDestinations_AddsAll(oldList, newList, useOldStatus) ==
    LET first == compareOldLoop(oldList, newList, useOldStatus, <<>>)
        second == compareNewLoop(1, oldList, first.newList, useOldStatus, <<>>)
    IN  [dests |-> second.newList, deletedDests |-> first.deletedDests,
         addedDests |-> second.newList]

compareDestinations(oldList, newList, useOldStatus) ==
    LET first == compareOldLoop(oldList, newList, useOldStatus, <<>>)
        second == compareNewLoop(1, oldList, first.newList, useOldStatus, <<>>)
    IN  [dests |-> second.newList, deletedDests |-> first.deletedDests,
         addedDests |-> second.addedDests]

\* variant: a broadcast ignores destType and selects every destination of the org
resolveFromMeta_BroadcastAll(store, metaData) ==
    IF metaData.DestID # EmptyString
    THEN LET r == RetrieveDestination(store, metaData.DestOrgID, metaData.DestType, metaData.DestID)
         IN  [dests |-> IF r.err = Nil /\ r.dest # <<>>
                        THEN <<[Destination |-> r.dest[1], Status |-> Pending]>>
                        ELSE <<>>,
              err |-> Nil]
    ELSE IF Len(metaData.DestinationsList) = 0
         THEN LET r == RetrieveDestinations(store, metaData.DestOrgID, EmptyString)
              IN  [dests |-> IF r.err = Nil
                             THEN [i \in 1..Len(r.dests) |->
                                      [Destination |-> r.dests[i], Status |-> Pending]]
                             ELSE <<>>,
                   err |-> Nil]
         ELSE createDestinationFromList(metaData.DestOrgID, store, metaData.DestinationsList)

\* variant: a non-empty destinationsList is consulted before destID
resolveFromMeta_ListFirst(store, metaData) ==
    IF Len(metaData.DestinationsList) # 0
    THEN createDestinationFromList(metaData.DestOrgID, store, metaData.DestinationsList)
    ELSE IF metaData.DestID # EmptyString
         THEN LET r == RetrieveDestination(store, metaData.DestOrgID, metaData.DestType, metaData.DestID)
              IN  [dests |-> IF r.err = Nil /\ r.dest # <<>>
                             THEN <<[Destination |-> r.dest[1], Status |-> Pending]>>
                             ELSE <<>>,
                   err |-> Nil]
         ELSE LET r == RetrieveDestinations(store, metaData.DestOrgID, metaData.DestType)
              IN  [dests |-> IF r.err = Nil
                             THEN [i \in 1..Len(r.dests) |->
                                      [Destination |-> r.dests[i], Status |-> Pending]]
                             ELSE <<>>,
                   err |-> Nil]

\* the destinations resolved from the routing fields, before reconciliation
resolveFromMeta(store, metaData) ==
    IF metaData.DestID # EmptyString
    THEN LET r == RetrieveDestination(store, metaData.DestOrgID, metaData.DestType, metaData.DestID)
         IN  [dests |-> IF r.err = Nil /\ r.dest # <<>>
                        THEN <<[Destination |-> r.dest[1], Status |-> Pending]>>
                        ELSE <<>>,
              err |-> Nil]
    ELSE IF Len(metaData.DestinationsList) = 0
         THEN LET r == RetrieveDestinations(store, metaData.DestOrgID, metaData.DestType)
              IN  [dests |-> IF r.err = Nil
                             THEN [i \in 1..Len(r.dests) |->
                                      [Destination |-> r.dests[i], Status |-> Pending]]
                             ELSE <<>>,
                   err |-> Nil]
         ELSE createDestinationFromList(metaData.DestOrgID, store, metaData.DestinationsList)

\* variant: the stored list is never consulted, no deleted list is computed
createDestinationsFromMeta_NoCompare(store, metaData) ==
    IF metaData.DestinationPolicy # Nil
    THEN [dests |-> <<>>, deletedDests |-> <<>>, err |-> Nil]
    ELSE LET resolved == resolveFromMeta(store, metaData)
         IN  IF resolved.err # Nil
             THEN [dests |-> <<>>, deletedDests |-> <<>>, err |-> resolved.err]
             ELSE [dests |-> resolved.dests, deletedDests |-> <<>>, err |-> Nil]

\* variant: the destination policy is not looked at
createDestinationsFromMeta_IgnorePolicy(store, metaData) ==
    LET resolved == resolveFromMeta(store, metaData)
        existingDestList == GetObjectDestinationsList(store)
    IN  IF resolved.err # Nil
        THEN [dests |-> <<>>, deletedDests |-> <<>>, err |-> resolved.err]
        ELSE IF ~existingDestList.isNil
             THEN LET c == compareDestinations(existingDestList.list, resolved.dests, FALSE)
                  IN  [dests |-> c.dests, deletedDests |-> c.deletedDests, err |-> Nil]
             ELSE [dests |-> resolved.dests, deletedDests |-> <<>>, err |-> Nil]

createDestinationsFromMeta(store, metaData) ==
    IF metaData.DestinationPolicy # Nil
    THEN [dests |-> <<>>, deletedDests |-> <<>>, err |-> Nil]
    ELSE LET resolved == resolveFromMeta(store, metaData)
             existingDestList == GetObjectDestinationsList(store)
         IN  IF resolved.err # Nil
             THEN [dests |-> <<>>, deletedDests |-> <<>>, err |-> resolved.err]
             ELSE IF ~existingDestList.isNil
                  THEN LET c == compareDestinations(existingDestList.list, resolved.dests, FALSE)
                       IN  [dests |-> c.dests, deletedDests |-> c.deletedDests, err |-> Nil]
                  ELSE [dests |-> resolved.dests, deletedDests |-> <<>>, err |-> Nil]

\* variant: reconciliation does not take the stored statuses over
createDestinations_NoOldStatus(orgID, store, existingDestinations, destinationsList) ==
    LET r == createDestinationFromList(orgID, store, destinationsList)
    IN  IF r.err # Nil
        THEN [dests |-> <<>>, deletedDests |-> <<>>, addedDests |-> <<>>, err |-> r.err]
        ELSE LET c == compareDestinations(existingDestinations, r.dests, FALSE)
             IN  [dests |-> c.dests, deletedDests |-> c.deletedDests,
                  addedDests |-> c.addedDests, err |-> Nil]

createDestinations(orgID, store, existingDestinations, destinationsList) ==
    LET r == createDestinationFromList(orgID, store, destinationsList)
    IN  IF r.err # Nil
        THEN [dests |-> <<>>, deletedDests |-> <<>>, addedDests |-> <<>>, err |-> r.err]
        ELSE LET c == compareDestinations(existingDestinations, r.dests, TRUE)
             IN  [dests |-> c.dests, deletedDests |-> c.deletedDests,
                  addedDests |-> c.addedDests, err |-> Nil]

NoMeta ==
    [DestOrgID |-> OrgID, DestType |-> EmptyString, DestID |-> EmptyString,
     DestinationsList |-> <<>>, DestinationPolicy |-> Nil, NoData |-> FALSE]

DCall(op, meta, list, old, new, useOld, failing, dests, deleted, added, err) ==
    [op |-> op, meta |-> meta, list |-> list, old |-> old, new |-> new,
     useOld |-> useOld, failing |-> failing, dests |-> dests,
     deletedDests |-> deleted, addedDests |-> added, err |-> err]

NoCall == DCall("none", NoMeta, <<>>, <<>>, <<>>, FALSE, FALSE, <<>>, <<>>, <<>>, Nil)

StoreView(failing) ==
    [dests |-> destStore.dests, hasList |-> destStore.hasList,
     objDests |-> destStore.objDests, failing |-> failing]

\* StoreObject resolving the destinations of the metadata being stored
CallCreateDestinationsFromMeta ==
    /\ dcall.op = "none"
    /\ \E metaData \in MetaDatas, failing \in BOOLEAN :
          LET r == createDestinationsFromMeta(StoreView(failing), metaData)
          IN  dcall' = DCall("createDestinationsFromMeta", metaData, metaData.DestinationsList,
                             destStore.objDests, <<>>, FALSE, failing,
                             r.dests, r.deletedDests, <<>>, r.err)
    /\ UNCHANGED <<destStore, resendVars, apiVars, extVars>>

\* UpdateObjectDestinations resolving a new destinationsList for a stored object
CallCreateDestinations ==
    /\ dcall.op = "none"
    /\ destStore.hasList
    /\ \E destinationsList \in SeqsUpTo(ListEntries, MaxList), failing \in BOOLEAN :
          LET r == createDestinations(OrgID, StoreView(failing), destStore.objDests, destinationsList)
              resolved == createDestinationFromList(OrgID, StoreView(failing), destinationsList)
          IN  dcall' = DCall("createDestinations", NoMeta, destinationsList,
                             destStore.objDests, resolved.dests, TRUE, failing,
                             r.dests, r.deletedDests, r.addedDests, r.err)
    /\ UNCHANGED <<destStore, resendVars, apiVars, extVars>>

\* compareDestinations on the stored list and an arbitrary newly resolved list
CallCompareDestinations ==
    /\ dcall.op = "none"
    /\ \E newList \in SeqsUpTo([Destination : AllDests, Status : {Pending}], MaxList),
          useOldStatus \in BOOLEAN :
          LET r == compareDestinations(destStore.objDests, newList, useOldStatus)
          IN  dcall' = DCall("compareDestinations", NoMeta, <<>>,
                             destStore.objDests, newList, useOldStatus, FALSE,
                             r.dests, r.deletedDests, r.addedDests, Nil)
    /\ UNCHANGED <<destStore, resendVars, apiVars, extVars>>

(***************************************************************************)
(* REST API server (base package): request handlers                        *)
(***************************************************************************)
CSS == "CSS"
ESS == "ESS"
ConfigOrgID == "org1"

StatusOK == 200
StatusNoContent == 204
StatusBadRequest == 400
StatusForbidden == 403
StatusNotFound == 404
StatusMethodNotAllowed == 405
StatusInternalServerError == 500
StatusServiceUnavailable == 503

AuthFailed == "AuthFailed"
AuthEdgeNode == "AuthEdgeNode"
AuthUser == "AuthUser"
AuthAdmin == "AuthAdmin"
AuthSyncAdmin == "AuthSyncAdmin"
AuthCodes == {AuthFailed, AuthEdgeNode, AuthUser, AuthAdmin, AuthSyncAdmin}

Methods == {"GET", "PUT", "POST", "DELETE"}
Orgs == {"org1", "org2"}
Outcomes == {"ok", "empty", "err"}

\* what a handler does, in order: a status header written, a call of the
\* authentication module, a call into the core
Hdr(code) == [k |-> "hdr", code |-> code, op |-> "", org |-> ""]
AuthEv(name) == [k |-> "auth", code |-> 0, op |-> name, org |-> ""]
Op(name, org) == [k |-> "op", code |-> 0, op |-> name, org |-> org]

\* communications.SendErrorResponse: writes the given status, or the status
\* of the error when none is given
SendErrorResponse(statusCode) ==
    <<Hdr(IF statusCode # 0 THEN statusCode ELSE StatusInternalServerError)>>

\* strings.ToLower / strings.EqualFold on the words the handlers compare
ToLower(w) ==
    CASE w = "Data" -> "data"
      [] w = "Status" -> "status"
      [] w = "ADD" -> "add"
      [] w = "Remove" -> "remove"
      [] w = "Register" -> "register"
      [] w = "DELETE" -> "delete"
      [] w = "TRUE" -> "true"
      [] w = "Yes" -> "yes"
      [] w = "CSS" -> "css"
      [] w = "ESS" -> "ess"
      [] w = "MQTT" -> "mqtt"
      [] w = "HTTP" -> "http"
      [] w = "WIoTP" -> "wiotp"
      [] w = "Secure" -> "secure"
      [] w = "Small" -> "small"
      [] OTHER -> w

EqualFold(a, b) == ToLower(a) = ToLower(b)

\* the URL path is handled as the result of strings.Split(path, "/")
PathEmpty(parts) == parts = <<"">>

\* a core call that answers okCode on success
CoreCall(name, org, req, okCode) ==
    <<Op(name, org)>> \o
        (IF req.outcome = "err" THEN SendErrorResponse(0) ELSE <<Hdr(okCode)>>)

\* a core call that returns a list, a value or a reader: 404 when there is none
CoreFetch(name, org, req) ==
    <<Op(name, org)>> \o
        (IF req.outcome = "err" THEN SendErrorResponse(0)
         ELSE IF req.outcome = "empty" THEN <<Hdr(StatusNotFound)>>
         ELSE <<Hdr(StatusOK)>>)

Forbidden == <<Hdr(StatusForbidden)>>

handleDestinations_NoRunningCheck(req, running, nt) ==
    IF ~req.basicAuth THEN Forbidden
    ELSE <<AuthEv("Authenticate")>> \o
         (IF req.code = AuthFailed \/ req.code = AuthEdgeNode THEN Forbidden
          ELSE IF req.method = "GET"
               THEN IF nt = CSS /\ PathEmpty(req.parts) THEN <<Hdr(StatusBadRequest)>>
                    ELSE LET orgID == IF nt = CSS THEN req.parts[1] ELSE ConfigOrgID
                         IN  IF req.userOrg # orgID /\ req.code # AuthSyncAdmin
                             THEN Forbidden
                             ELSE CoreFetch("listDestinations", orgID, req)
               ELSE <<Hdr(StatusMethodNotAllowed)>>)

handleDestinations(req, running, nt) ==
    IF ~running THEN <<Hdr(StatusServiceUnavailable)>>
    ELSE IF ~req.basicAuth THEN Forbidden
    ELSE <<AuthEv("Authenticate")>> \o
         (IF req.code = AuthFailed \/ req.code = AuthEdgeNode THEN Forbidden
          ELSE IF req.method = "GET"
               THEN IF nt = CSS /\ PathEmpty(req.parts) THEN <<Hdr(StatusBadRequest)>>
                    ELSE LET orgID == IF nt = CSS THEN req.parts[1] ELSE ConfigOrgID
                         IN  IF req.userOrg # orgID /\ req.code # AuthSyncAdmin
                             THEN Forbidden
                             ELSE CoreFetch("listDestinations", orgID, req)
               ELSE <<Hdr(StatusMethodNotAllowed)>>)

handleResend(req, running, nt) ==
    IF ~running THEN <<Hdr(StatusServiceUnavailable)>>
    ELSE IF ~req.basicAuth THEN Forbidden
    ELSE <<AuthEv("Authenticate")>> \o
         (IF req.code # AuthAdmin /\ req.code # AuthUser THEN Forbidden
          ELSE IF req.method = "POST"
               THEN CoreCall("resendObjects", "", req, StatusNoContent)
               ELSE <<Hdr(StatusMethodNotAllowed)>>)

canUserAccessObject(req) == req.basicAuth /\ req.canAccess

\* the calls canUserAccessObject makes
canUserAccessObjectEvents(req) ==
    IF req.basicAuth THEN <<AuthEv("CanUserAccessObject")>> ELSE <<>>

handleListUpdatedObjects(orgID, req) ==
    canUserAccessObjectEvents(req) \o
        (IF ~canUserAccessObject(req) THEN Forbidden
         ELSE CoreFetch("listUpdatedObjects", orgID, req))

handleWebhook(orgID, req) ==
    IF req.method # "PUT" THEN <<Hdr(StatusBadRequest)>>
    ELSE canUserAccessObjectEvents(req) \o
         (IF ~canUserAccessObject(req) THEN Forbidden
          ELSE IF req.jsonOK
               THEN IF EqualFold(req.action, "delete")
                    THEN CoreCall("deleteWebhook", orgID, req, StatusOK)
                    ELSE IF EqualFold(req.action, "register")
                         THEN CoreCall("registerWebhook", orgID, req, StatusOK)
                         ELSE <<Hdr(StatusOK)>>
               ELSE SendErrorResponse(StatusBadRequest))

handleUpdateObject(orgID, req) ==
    IF req.jsonOK
    THEN IF ~req.basicAuth THEN Forbidden
         ELSE <<AuthEv("CanUserCreateObject")>> \o
              (IF ~req.canCreate THEN Forbidden
               ELSE CoreCall("updateObject", orgID, req, StatusOK))
    ELSE SendErrorResponse(StatusBadRequest)

handleObjectRequest(orgID, req) ==
    CASE req.method = "GET" ->
            canUserAccessObjectEvents(req) \o
                (IF ~canUserAccessObject(req) THEN Forbidden
                 ELSE CoreFetch("getObject", orgID, req))
      [] req.method = "DELETE" ->
            canUserAccessObjectEvents(req) \o
                (IF ~canUserAccessObject(req) THEN Forbidden
                 ELSE CoreCall("deleteObject", orgID, req, StatusNoContent))
      [] req.method = "PUT" -> handleUpdateObject(orgID, req)
      [] OTHER -> <<Hdr(StatusMethodNotAllowed)>>

\* handleObjectConsumed, handleObjectDeleted, handleObjectReceived and
\* handleActivateObject: PUT only
handleObjectPutOperation(name, orgID, req) ==
    IF req.method = "PUT" THEN CoreCall(name, orgID, req, StatusNoContent)
    ELSE <<Hdr(StatusMethodNotAllowed)>>

\* handleObjectStatus and handleObjectDestinations: GET only
handleObjectGetOperation(name, orgID, req) ==
    IF req.method = "GET" THEN CoreFetch(name, orgID, req)
    ELSE <<Hdr(StatusMethodNotAllowed)>>

handleObjectGetData_ReturnOnCopyError(orgID, req) ==
    <<Op("getObjectData", orgID)>> \o
        (IF req.outcome = "err" THEN SendErrorResponse(0)
         ELSE IF req.outcome = "empty" THEN <<Hdr(StatusNotFound)>>
         ELSE <<Hdr(StatusOK), Op("io.Copy", orgID)>>
              \o (IF ~req.copyOK THEN SendErrorResponse(0)
                  ELSE <<Op("CloseDataReader", orgID)>>
                       \o (IF ~req.closeOK THEN SendErrorResponse(0) ELSE <<>>)))

handleObjectGetData(orgID, req) ==
    <<Op("getObjectData", orgID)>> \o
        (IF req.outcome = "err" THEN SendErrorResponse(0)
         ELSE IF req.outcome = "empty" THEN <<Hdr(StatusNotFound)>>
         ELSE <<Hdr(StatusOK), Op("io.Copy", orgID)>>
              \o (IF ~req.copyOK THEN SendErrorResponse(0) ELSE <<>>)
              \o <<Op("CloseDataReader", orgID)>>
              \o (IF ~req.closeOK THEN SendErrorResponse(0) ELSE <<>>))

handleObjectPutData(orgID, req) ==
    <<Op("putObjectData", orgID)>> \o
        (IF req.outcome = "err" THEN SendErrorResponse(0)
         ELSE IF req.outcome = "empty" THEN <<Hdr(StatusNotFound)>>
         ELSE <<Hdr(StatusOK)>>)

handleObjectOperation_NoAccessCheck(operation, orgID, req) ==
    canUserAccessObjectEvents(req) \o
        (IF FALSE THEN Forbidden
         ELSE CASE operation = "consumed" -> handleObjectPutOperation("objectConsumed", orgID, req)
                [] operation = "deleted" -> handleObjectPutOperation("objectDeleted", orgID, req)
                [] operation = "received" -> handleObjectPutOperation("objectReceived", orgID, req)
                [] operation = "activate" -> handleObjectPutOperation("activateObject", orgID, req)
                [] operation = "status" -> handleObjectGetOperation("getObjectStatus", orgID, req)
                [] operation = "destinations" ->
                       handleObjectGetOperation("getObjectDestinationsStatus", orgID, req)
                [] operation = "data" ->
                       (CASE req.method = "GET" -> handleObjectGetData(orgID, req)
                          [] req.method = "PUT" -> handleObjectPutData(orgID, req)
                          [] OTHER -> <<Hdr(StatusMethodNotAllowed)>>)
                [] OTHER -> <<Hdr(StatusBadRequest)>>)

handleObjectOperation(operation, orgID, req) ==
    canUserAccessObjectEvents(req) \o
        (IF ~canUserAccessObject(req) THEN Forbidden
         ELSE CASE operation = "consumed" -> handleObjectPutOperation("objectConsumed", orgID, req)
                [] operation = "deleted" -> handleObjectPutOperation("objectDeleted", orgID, req)
                [] operation = "received" -> handleObjectPutOperation("objectReceived", orgID, req)
                [] operation = "activate" -> handleObjectPutOperation("activateObject", orgID, req)
                [] operation = "status" -> handleObjectGetOperation("getObjectStatus", orgID, req)
                [] operation = "destinations" ->
                       handleObjectGetOperation("getObjectDestinationsStatus", orgID, req)
                [] operation = "data" ->
                       (CASE req.method = "GET" -> handleObjectGetData(orgID, req)
                          [] req.method = "PUT" -> handleObjectPutData(orgID, req)
                          [] OTHER -> <<Hdr(StatusMethodNotAllowed)>>)
                [] OTHER -> <<Hdr(StatusBadRequest)>>)

\* the part of handleObjects after the running check
handleObjectsRouting(req, nt) ==
    IF ~PathEmpty(req.parts)
    THEN IF nt = CSS /\ Len(req.parts) = 1 THEN <<Hdr(StatusBadRequest)>>
         ELSE LET orgID == IF nt = CSS THEN req.parts[1] ELSE ConfigOrgID
                  parts == IF nt = CSS THEN Tail(req.parts) ELSE req.parts
              IN  IF Len(parts) = 1 \/ (Len(parts) = 2 /\ parts[2] = "")
                  THEN CASE req.method = "GET" ->
                                IF ~req.receivedOK THEN <<Hdr(StatusBadRequest)>>
                                ELSE handleListUpdatedObjects(orgID, req)
                         [] req.method = "PUT" -> handleWebhook(orgID, req)
                         [] OTHER -> <<Hdr(StatusMethodNotAllowed)>>
                  ELSE IF Len(parts) = 2 \/ (Len(parts) = 3 /\ parts[3] = "")
                       THEN handleObjectRequest(orgID, req)
                       ELSE IF Len(parts) = 3 \/ (Len(parts) = 4 /\ parts[4] = "")
                            THEN handleObjectOperation(ToLower(parts[3]), orgID, req)
                            ELSE <<Hdr(StatusBadRequest)>>
    ELSE <<Hdr(StatusBadRequest)>>

handleObjects(req, running, nt) ==
    IF ~running THEN <<Hdr(StatusServiceUnavailable)>>
    ELSE handleObjectsRouting(req, nt)

\* an organization written into the response body
Listed(org) == [k |-> "org", code |-> 0, op |-> "", org |-> org]

\* what getOrganizations returns when the store holds organizations
StoredOrganizations == <<"org1", "org2">>

orgsList_All(orgs, req) == orgs

\* the organizations handleGetOrganizations puts into its answer
orgsList(orgs, req) ==
    SelectSeq(orgs, LAMBDA o : req.code = AuthSyncAdmin \/ req.userOrg = o)

\* the list is fetched and answered; json.MarshalIndent of a list of two
\* strings does not fail
listOrganizations(req) ==
    <<Op("getOrganizations", "")>> \o
        (IF req.outcome = "err" THEN SendErrorResponse(0)
         ELSE IF req.outcome = "empty" THEN <<Hdr(StatusNotFound)>>
         ELSE LET list == orgsList(StoredOrganizations, req)
              IN  <<Hdr(StatusOK)>> \o [i \in 1..Len(list) |-> Listed(list[i])])

handleGetOrganizations(req, running, nt) ==
    IF ~running THEN <<Hdr(StatusServiceUnavailable)>>
    ELSE IF ~req.basicAuth THEN Forbidden
    ELSE <<AuthEv("Authenticate")>> \o
         (IF req.code # AuthAdmin /\ req.code # AuthSyncAdmin THEN Forbidden
          ELSE (IF req.method # "GET" THEN <<Hdr(StatusMethodNotAllowed)>> ELSE <<>>)
               \o listOrganizations(req))

handleOrganizations(req, running, nt) ==
    IF ~running THEN <<Hdr(StatusServiceUnavailable)>>
    ELSE IF PathEmpty(req.parts) THEN handleGetOrganizations(req, running, nt)
    ELSE IF Len(req.parts) # 1 /\ ~(Len(req.parts) = 2 /\ req.parts[2] = "")
         THEN <<Hdr(StatusBadRequest)>>
    ELSE LET orgID == req.parts[1]
         IN  IF ~req.basicAuth THEN Forbidden
             ELSE <<AuthEv("Authenticate")>> \o
                  (IF ~((req.code = AuthAdmin /\ orgID = req.userOrg) \/ req.code = AuthSyncAdmin)
                   THEN Forbidden
                   ELSE CASE req.method = "DELETE" ->
                                 CoreCall("deleteOrganization", orgID, req, StatusNoContent)
                          [] req.method = "PUT" ->
                                 IF req.jsonOK
                                 THEN CoreCall("updateOrganization", orgID, req, StatusNoContent)
                                 ELSE SendErrorResponse(StatusBadRequest)
                          [] OTHER -> <<Hdr(StatusMethodNotAllowed)>>)

handleACLDelete(aclType, orgID, parts, req) ==
    CoreCall("removeUsersFromACL", orgID, req, StatusNoContent)

handleACLGet_EmptyOK(aclType, orgID, parts, req) ==
    <<Op(IF Len(parts) = 1 THEN "retrieveACL" ELSE "retrieveACLsInOrg", orgID)>> \o
        (IF req.outcome = "err" THEN SendErrorResponse(0) ELSE <<Hdr(StatusOK)>>)

handleACLGet(aclType, orgID, parts, req) ==
    IF Len(parts) = 1 THEN CoreFetch("retrieveACL", orgID, req)
    ELSE CoreFetch("retrieveACLsInOrg", orgID, req)

handleACLUpdate(aclType, orgID, parts, req) ==
    IF Len(parts) = 2 THEN CoreCall("addUsersToACL", orgID, req, StatusNoContent)
    ELSE IF req.jsonOK
         THEN IF EqualFold(req.action, "remove")
              THEN CoreCall("removeUsersFromACL", orgID, req, StatusNoContent)
              ELSE IF EqualFold(req.action, "add")
                   THEN CoreCall("addUsersToACL", orgID, req, StatusNoContent)
                   ELSE SendErrorResponse(StatusBadRequest) \o <<Hdr(StatusNoContent)>>
         ELSE SendErrorResponse(StatusBadRequest)

DestinationsACLType == "destinations"
ObjectsACLType == "objects"

handleSecurity(req, running, nt) ==
    IF ~running THEN <<Hdr(StatusServiceUnavailable)>>
    ELSE IF ~req.basicAuth THEN Forbidden
    ELSE <<AuthEv("Authenticate")>> \o
         (IF req.code = AuthFailed \/ req.code # AuthAdmin THEN Forbidden
          ELSE IF Len(req.parts) < 2 \/ Len(req.parts) > 4 THEN <<Hdr(StatusBadRequest)>>
          ELSE LET aclType == req.parts[1]
                   orgID == req.parts[2]
                   parts == SubSeq(req.parts, 3, Len(req.parts))
               IN  IF req.userOrg # orgID THEN Forbidden
                   ELSE IF aclType # DestinationsACLType /\ aclType # ObjectsACLType
                        THEN <<Hdr(StatusBadRequest)>>
                   ELSE CASE req.method = "DELETE" ->
                                 IF Len(parts) # 2 THEN <<Hdr(StatusBadRequest)>>
                                 ELSE handleACLDelete(aclType, orgID, parts, req)
                          [] req.method = "GET" ->
                                 IF Len(parts) > 1 THEN <<Hdr(StatusBadRequest)>>
                                 ELSE handleACLGet(aclType, orgID, parts, req)
                          [] req.method = "PUT" ->
                                 IF Len(parts) = 0 THEN <<Hdr(StatusBadRequest)>>
                                 ELSE handleACLUpdate(aclType, orgID, parts, req)
                          [] OTHER -> <<Hdr(StatusMethodNotAllowed)>>)

(***************************************************************************)
(* REST API server: requests, Start and Stop                               *)
(***************************************************************************)
NoRequest ==
    [handler |-> "none", method |-> "GET", parts |-> <<"">>, basicAuth |-> FALSE,
     code |-> AuthFailed, userOrg |-> "org1", canAccess |-> FALSE, canCreate |-> FALSE,
     jsonOK |-> TRUE, receivedOK |-> TRUE, action |-> "", outcome |-> "ok",
     copyOK |-> TRUE, closeOK |-> TRUE, running |-> FALSE]

OrgPaths == {<<"">>, <<"org1">>, <<"org2">>, <<"org1", "">>, <<"org1", "x">>}

ObjectOperations ==
    {"consumed", "deleted", "received", "activate", "status", "Status",
     "destinations", "data", "Data", "bogus"}

ObjectPaths ==
    {<<"">>, <<"org1">>, <<"org1", "t">>, <<"org1", "t", "">>, <<"org1", "t", "id">>,
     <<"org1", "t", "id", "data", "x">>}
        \cup {<<"org1", "t", "id", o>> : o \in ObjectOperations}
        \cup {<<"t", "id", o>> : o \in {"consumed", "data", "status"}}

SecurityPaths ==
    {<<"">>, <<"objects", "org1">>, <<"objects", "org2">>, <<"bogus", "org1">>,
     <<"objects", "org1", "k">>, <<"destinations", "org1", "k", "u">>,
     <<"objects", "org1", "k", "u", "x">>}

\* base.Start: the service is running again
Start ==
    /\ ~Running
    /\ Running' = TRUE
    /\ UNCHANGED <<nodeType, apiReq, apiResp, resendVars, destVars, extVars>>

\* base.Stop: new API calls are refused from now on
Stop ==
    /\ Running
    /\ Running' = FALSE
    /\ UNCHANGED <<nodeType, apiReq, apiResp, resendVars, destVars, extVars>>

HandleDestinations ==
    /\ apiReq.handler = "none"
    /\ \E m \in Methods, parts \in {<<"">>, <<"org1">>, <<"org2">>}, ba \in BOOLEAN,
          code \in AuthCodes, uo \in Orgs, oc \in Outcomes :
          LET req == [NoRequest EXCEPT !.handler = "handleDestinations", !.method = m,
                         !.parts = parts, !.basicAuth = ba, !.code = code,
                         !.userOrg = uo, !.outcome = oc, !.running = Running]
          IN  /\ apiReq' = req
              /\ apiResp' = handleDestinations(req, Running, nodeType)
    /\ UNCHANGED <<Running, nodeType, resendVars, destVars, extVars>>

HandleResend ==
    /\ apiReq.handler = "none"
    /\ \E m \in Methods, ba \in BOOLEAN, code \in AuthCodes, oc \in {"ok", "err"} :
          LET req == [NoRequest EXCEPT !.handler = "handleResend", !.method = m,
                         !.basicAuth = ba, !.code = code, !.outcome = oc,
                         !.running = Running]
          IN  /\ apiReq' = req
              /\ apiResp' = handleResend(req, Running, nodeType)
    /\ UNCHANGED <<Running, nodeType, resendVars, destVars, extVars>>

HandleObjects ==
    /\ apiReq.handler = "none"
    /\ \E m \in Methods, parts \in ObjectPaths, ba \in BOOLEAN, ca \in BOOLEAN,
          cc \in BOOLEAN, js \in BOOLEAN, rcv \in BOOLEAN,
          act \in {"Register", "delete", "bogus"}, oc \in Outcomes,
          cp \in BOOLEAN, cl \in BOOLEAN :
          LET req == [NoRequest EXCEPT !.handler = "handleObjects", !.method = m,
                         !.parts = parts, !.basicAuth = ba, !.canAccess = ca,
                         !.canCreate = cc, !.jsonOK = js, !.receivedOK = rcv,
                         !.action = act, !.outcome = oc, !.copyOK = cp, !.closeOK = cl,
                         !.running = Running]
          IN  /\ apiReq' = req
              /\ apiResp' = handleObjects(req, Running, nodeType)
    /\ UNCHANGED <<Running, nodeType, resendVars, destVars, extVars>>

HandleGetOrganizations ==
    /\ apiReq.handler = "none"
    /\ \E m \in Methods, ba \in BOOLEAN, code \in AuthCodes, uo \in Orgs, oc \in Outcomes :
          LET req == [NoRequest EXCEPT !.handler = "handleGetOrganizations", !.method = m,
                         !.basicAuth = ba, !.code = code, !.userOrg = uo, !.outcome = oc,
                         !.running = Running]
          IN  /\ apiReq' = req
              /\ apiResp' = handleGetOrganizations(req, Running, nodeType)
    /\ UNCHANGED <<Running, nodeType, resendVars, destVars, extVars>>

HandleOrganizations ==
    /\ apiReq.handler = "none"
    /\ \E m \in Methods, parts \in OrgPaths, ba \in BOOLEAN, code \in AuthCodes,
          uo \in Orgs, js \in BOOLEAN, oc \in Outcomes :
          LET req == [NoRequest EXCEPT !.handler = "handleOrganizations", !.method = m,
                         !.parts = parts, !.basicAuth = ba, !.code = code, !.userOrg = uo,
                         !.jsonOK = js, !.outcome = oc, !.running = Running]
          IN  /\ apiReq' = req
              /\ apiResp' = handleOrganizations(req, Running, nodeType)
    /\ UNCHANGED <<Running, nodeType, resendVars, destVars, extVars>>

\* setupAPIServer registers the security endpoint on a CSS only
HandleSecurity ==
    /\ apiReq.handler = "none"
    /\ nodeType = CSS
    /\ \E m \in Methods, parts \in SecurityPaths, ba \in BOOLEAN, code \in AuthCodes,
          uo \in Orgs, js \in BOOLEAN, act \in {"ADD", "Remove", "bogus"}, oc \in Outcomes :
          LET req == [NoRequest EXCEPT !.handler = "handleSecurity", !.method = m,
                         !.parts = parts, !.basicAuth = ba, !.code = code, !.userOrg = uo,
                         !.jsonOK = js, !.action = act, !.outcome = oc,
                         !.running = Running]
          IN  /\ apiReq' = req
              /\ apiResp' = handleSecurity(req, Running, nodeType)
    /\ UNCHANGED <<Running, nodeType, resendVars, destVars, extVars>>

\* the response has been sent; the server waits for the next request
FinishRequest ==
    /\ apiReq.handler # "none"
    /\ apiReq' = NoRequest
    /\ apiResp' = <<>>
    /\ UNCHANGED <<Running, nodeType, resendVars, destVars, extVars>>

(***************************************************************************)
(* Properties of the REST API server                                       *)
(***************************************************************************)
GuardedHandlers ==
    {"handleDestinations", "handleObjects", "handleResend", "handleGetOrganizations",
     "handleOrganizations", "handleSecurity"}

\* C10: a request that arrives at the destinations, objects, resend,
\* organizations or security endpoint while the running flag is false is
\* answered 503 and nothing else happens: no authentication, no core call.
C10_NotRunningUnavailable ==
    (apiReq.handler \in GuardedHandlers /\ ~apiReq.running) =>
        apiResp = <<Hdr(StatusServiceUnavailable)>>

C10_Witness ==
    /\ apiReq.handler = "handleDestinations"
    /\ ~apiReq.running
    /\ apiReq.basicAuth
    /\ apiReq.code = AuthSyncAdmin
    /\ apiReq.method = "GET"
    /\ apiResp = <<Hdr(StatusServiceUnavailable)>>

(***************************************************************************)
(* Properties of resendNotification                                        *)
(***************************************************************************)
AlwaysResent == {Update, Consumed, Getdata, Delete, Deleted, Received}
ResentWhenRetrieveReceived == {Data, ReceivedByDestination}

\* C1: resendNotification(n, retrieveReceived) is true iff n.Status is one of
\* update, consumed, getdata, delete, deleted, received, or retrieveReceived
\* is set and n.Status is data or receivedByDestination; false otherwise.
C1_ResendEligibility ==
    resendCalled =>
        (resendResult <=>
            \/ notification.Status \in AlwaysResent
            \/ (retrieveReceived /\ notification.Status \in ResentWhenRetrieveReceived))

C1_Witness ==
    /\ resendCalled
    /\ ~retrieveReceived
    /\ notification.Status = ReceivedByDestination
    /\ ~resendResult

(***************************************************************************)
(* Properties of destination resolution                                    *)
(***************************************************************************)
DestsOf(list) == {list[i].Destination : i \in 1..Len(list)}

\* the "type:id" entry that names a destination
EntryOf(d) == d.DestType \o <<":">> \o d.DestID

\* the registered destinations the routing fields of the metadata select
Routing(metaData) ==
    IF metaData.DestinationPolicy # Nil THEN {}
    ELSE IF metaData.DestID # EmptyString
         THEN {d \in destStore.dests :
                  d.DestType = metaData.DestType /\ d.DestID = metaData.DestID}
         ELSE IF metaData.DestinationsList = <<>>
              THEN {d \in destStore.dests :
                       metaData.DestType = EmptyString \/ d.DestType = metaData.DestType}
              ELSE {d \in destStore.dests : EntryOf(d) \in Range(metaData.DestinationsList)}

Reconciled ==
    /\ dcall.op \in {"compareDestinations", "createDestinations"}
    /\ dcall.err = Nil

\* C2: compareDestinations(O, N, _) returns (merged, deleted, added) with
\* deleted exactly the entries of O whose destination is not in N, added
\* exactly the entries of N whose destination is not in O, and merged holding
\* every destination of N (deleted and merged disjoint, added within merged).
C2_CompareDestinations ==
    Reconciled =>
        /\ dcall.deletedDests =
              SelectSeq(dcall.old, LAMBDA e : e.Destination \notin DestsOf(dcall.new))
        /\ dcall.addedDests =
              SelectSeq(dcall.new, LAMBDA e : e.Destination \notin DestsOf(dcall.old))
        /\ DestsOf(dcall.new) \subseteq DestsOf(dcall.dests)
        /\ DestsOf(dcall.deletedDests) \cap DestsOf(dcall.dests) = {}
        /\ Range(dcall.addedDests) \subseteq Range(dcall.dests)

C2_Witness ==
    /\ dcall.op = "compareDestinations"
    /\ dcall.deletedDests # <<>>
    /\ dcall.addedDests # <<>>
    /\ Len(dcall.dests) > Len(dcall.addedDests)

\* every returned entry whose destination was stored carries a stored status
StoredStatusKept ==
    \A i \in 1..Len(dcall.dests) :
        \A j \in 1..Len(dcall.old) :
            dcall.old[j].Destination = dcall.dests[i].Destination =>
                dcall.dests[i].Status \in
                    {dcall.old[k].Status : k \in {k \in 1..Len(dcall.old) :
                        dcall.old[k].Destination = dcall.dests[i].Destination}}

\* C3 (as claimed): on every re-resolution (createDestinationsFromMeta and
\* createDestinations) a destination that is in the stored list and in the new
\* list keeps its stored delivery status.
C3_Original ==
    (dcall.op \in {"createDestinationsFromMeta", "createDestinations"} /\ dcall.err = Nil)
        => StoredStatusKept

\* C3 (amended): createDestinations keeps the stored status of a destination
\* that is in both lists; createDestinationsFromMeta returns every
\* destination with status pending.
C3_StatusOnReresolution ==
    /\ (dcall.op = "createDestinations" /\ dcall.err = Nil) => StoredStatusKept
    /\ dcall.op = "createDestinationsFromMeta" =>
          \A i \in 1..Len(dcall.dests) : dcall.dests[i].Status = Pending

C3_Witness ==
    /\ dcall.op = "createDestinations"
    /\ dcall.err = Nil
    /\ \E i \in 1..Len(dcall.dests) : dcall.dests[i].Status = "delivered"

StoredAbsentFromRouting ==
    SelectSeq(dcall.old, LAMBDA e : e.Destination \notin Routing(dcall.meta))

StoredObjectResolved ==
    /\ dcall.op = "createDestinationsFromMeta"
    /\ destStore.hasList
    /\ ~dcall.failing
    /\ dcall.err = Nil

NoDataNoList ==
    /\ dcall.op = "createDestinationsFromMeta"
    /\ dcall.meta.NoData
    /\ dcall.meta.DestinationsList = <<>>

\* C5 (as claimed): metadata with noData=true and an empty destinationsList
\* resolves to the empty destination set without error, whatever is registered.
C5_Original ==
    NoDataNoList => (dcall.dests = <<>> /\ dcall.err = Nil)

\* C5 (amended): metadata with noData=true and an empty destinationsList
\* resolves without error to the registered destinations its routing selects
\* (all pending); the result is empty only when none is selected or the store
\* read fails.
C5_NoDataResolution ==
    NoDataNoList =>
        /\ dcall.err = Nil
        /\ DestsOf(dcall.dests) = (IF dcall.failing THEN {} ELSE Routing(dcall.meta))
        /\ \A i \in 1..Len(dcall.dests) : dcall.dests[i].Status = Pending

C5_Witness ==
    /\ NoDataNoList
    /\ dcall.meta.DestinationPolicy = Nil
    /\ dcall.meta.DestType = TypeT
    /\ dcall.meta.DestID = EmptyString
    /\ Len(dcall.dests) = 2
    /\ Destination(TypeU, IdA) \in destStore.dests

\* the list is the one the call resolves entry by entry
ListResolved ==
    \/ dcall.op = "createDestinations"
    \/ /\ dcall.op = "createDestinationsFromMeta"
       /\ dcall.meta.DestinationPolicy = Nil
       /\ dcall.meta.DestID = EmptyString

\* some entry names a destination that the store does not hold
HasNotFoundEntry ==
    \E i \in 1..Len(dcall.list) :
        LET parts == Split(dcall.list[i], ":")
        IN  /\ Len(parts) = 2
            /\ [DestOrgID |-> OrgID, DestType |-> parts[1], DestID |-> parts[2]]
                   \notin destStore.dests

\* C6: resolving a destinationsList with an entry whose destination is not
\* found fails with InvalidRequest and returns no destination list, no deleted
\* list and no added list.
C6_NotFoundEntryFails ==
    (ListResolved /\ ~dcall.failing /\ HasNotFoundEntry) =>
        /\ dcall.err = InvalidRequest
        /\ dcall.dests = <<>>
        /\ dcall.deletedDests = <<>>
        /\ dcall.addedDests = <<>>

C6_Witness ==
    /\ dcall.op = "createDestinations"
    /\ ~dcall.failing
    /\ Len(dcall.list) = 2
    /\ dcall.list[1] = <<"T", ":", "a">>
    /\ Destination(TypeT, IdA) \in destStore.dests
    /\ dcall.list[2] = <<"T", ":", "b">>
    /\ Destination(TypeT, IdB) \notin destStore.dests
    /\ dcall.old # <<>>
    /\ dcall.err = InvalidRequest

SingleDestination ==
    /\ dcall.op = "createDestinationsFromMeta"
    /\ dcall.meta.DestinationPolicy = Nil
    /\ dcall.meta.DestID # EmptyString

\* C7: without a destination policy and with a non-empty destID, resolution
\* yields exactly (destType, destID) if the store returns it and the empty
\* list otherwise, never an error; destinationsList and the other registered
\* destinations are not included.
C7_SingleDestination ==
    SingleDestination =>
        LET d == [DestOrgID |-> OrgID, DestType |-> dcall.meta.DestType,
                  DestID |-> dcall.meta.DestID]
        IN  /\ dcall.err = Nil
            /\ dcall.dests = IF d \in destStore.dests /\ ~dcall.failing
                             THEN <<[Destination |-> d, Status |-> Pending]>>
                             ELSE <<>>

C7_Witness ==
    /\ SingleDestination
    /\ dcall.meta.DestType = TypeT
    /\ dcall.meta.DestID = IdA
    /\ dcall.meta.DestinationsList = << <<"T", ":", "b">> >>
    /\ {Destination(TypeT, IdA), Destination(TypeT, IdB)} \subseteq destStore.dests
    /\ Len(dcall.dests) = 1

\* C8: with a destination policy, resolution returns an empty destination
\* list and no error, whatever destType, destID, destinationsList and the
\* registered destinations are.
C8_PolicyDefersResolution ==
    (dcall.op = "createDestinationsFromMeta" /\ dcall.meta.DestinationPolicy # Nil) =>
        (dcall.dests = <<>> /\ dcall.err = Nil)

C8_Witness ==
    /\ dcall.op = "createDestinationsFromMeta"
    /\ dcall.meta.DestinationPolicy # Nil
    /\ dcall.meta.DestType = TypeT
    /\ dcall.meta.DestID = IdA
    /\ Destination(TypeT, IdA) \in destStore.dests
    /\ ~dcall.failing
    /\ dcall.dests = <<>>

\* the stored destinations are [T:a, T:b], both registered, and the new
\* destinationsList is ["T:a"]
RemoveOneOfTwo ==
    /\ dcall.op = "createDestinations"
    /\ ~dcall.failing
    /\ Len(dcall.old) = 2
    /\ dcall.old[1].Destination = Destination(TypeT, IdA)
    /\ dcall.old[2].Destination = Destination(TypeT, IdB)
    /\ {Destination(TypeT, IdA), Destination(TypeT, IdB)} \subseteq destStore.dests
    /\ dcall.list = << <<"T", ":", "a">> >>

\* C9: updating the destinations [T:a, T:b] to [T:a] returns the deleted list
\* [T:b] and an empty added list (one Delete for T:b, no Update for T:a).
C9_DestinationRemoval ==
    RemoveOneOfTwo =>
        /\ dcall.err = Nil
        /\ dcall.deletedDests = <<dcall.old[2]>>
        /\ dcall.addedDests = <<>>
        /\ DestsOf(dcall.dests) = {Destination(TypeT, IdA)}

C9_Witness ==
    /\ RemoveOneOfTwo
    /\ dcall.old[2].Status = "delivered"
    /\ Len(dcall.deletedDests) = 1

(***************************************************************************)
(* Authorization of object and webhook requests                            *)
(***************************************************************************)
CoreOps == {apiResp[i].op : i \in {k \in 1..Len(apiResp) : apiResp[k].k = "op"}}
HeadersWritten == {apiResp[i].code : i \in {k \in 1..Len(apiResp) : apiResp[k].k = "hdr"}}
ObjectRequest == apiReq.handler = "handleObjects"

\* a refused request is answered 403 and nothing but 403, and no core call is made
RefusedChangesNothing ==
    StatusForbidden \in HeadersWritten => CoreOps = {} /\ HeadersWritten = {StatusForbidden}

\* without access no operation other than the upsert reaches the core, and
\* the request is answered 403 unless routing already rejected it
AccessGatesOperations ==
    ~canUserAccessObject(apiReq) =>
        /\ CoreOps \subseteq {"updateObject"}
        /\ (CoreOps = {} /\ apiReq.running =>
               HeadersWritten \in {{StatusForbidden}, {StatusBadRequest},
                                   {StatusMethodNotAllowed}})

\* C12 as stated: every object or webhook operation, the upsert included,
\* reaches the core only if canUserAccessObject holds; the upsert only if
\* CanUserCreateObject holds as well; a refused request is answered 403 and
\* changes nothing
C12_Original ==
    ObjectRequest =>
        /\ (CoreOps # {} => canUserAccessObject(apiReq))
        /\ ("updateObject" \in CoreOps => apiReq.canCreate)
        /\ RefusedChangesNothing

\* C12 amended: every operation but the upsert reaches the core only if
\* canUserAccessObject holds; the upsert reaches updateObject only if the
\* request carries credentials and CanUserCreateObject holds (it is not
\* checked with canUserAccessObject); a refused request is answered 403 and
\* makes no core call
C12_AccessControl ==
    ObjectRequest =>
        /\ AccessGatesOperations
        /\ ("updateObject" \in CoreOps => apiReq.basicAuth /\ apiReq.canCreate)
        /\ RefusedChangesNothing

\* an upsert reached updateObject for a caller canUserAccessObject rejects
C12_Witness ==
    /\ ObjectRequest
    /\ "updateObject" \in CoreOps
    /\ ~canUserAccessObject(apiReq)
    /\ apiReq.canCreate

(***************************************************************************)
(* Data reader lifetime in handleObjectGetData                             *)
(***************************************************************************)
OpPositions(name) == {i \in 1..Len(apiResp) : apiResp[i].k = "op" /\ apiResp[i].op = name}

\* getObjectData returned a reader: neither an error nor nil
ReaderObtained == OpPositions("getObjectData") # {} /\ apiReq.outcome = "ok"

\* C13: a reader obtained for a get-data request is released with
\* CloseDataReader exactly once, after the copy, whether the copy succeeded
\* or failed; when no reader was obtained nothing is released
C13_ReaderClosedOnce ==
    ObjectRequest =>
        IF ReaderObtained
        THEN /\ Cardinality(OpPositions("CloseDataReader")) = 1
             /\ \A c \in OpPositions("CloseDataReader"), d \in OpPositions("io.Copy") : d < c
        ELSE OpPositions("CloseDataReader") = {}

\* the copy to the response failed and the reader was still released
C13_Witness ==
    /\ ObjectRequest
    /\ ReaderObtained
    /\ ~apiReq.copyOK
    /\ Cardinality(OpPositions("CloseDataReader")) = 1

(***************************************************************************)
(* Shutdown and restart (handleShutdown and the goroutine it starts)       *)
(***************************************************************************)
\* the goroutines handleShutdown can have in flight at once
MaxRestarts == 2
Goroutines == 1..MaxRestarts

\* values of the restart query parameter
RestartParams == {"true", "TRUE", "Yes", "no", ""}

NoRestart == [pc |-> "idle", restart |-> FALSE, blocking |-> FALSE, resp |-> 0]
NoRestarts == [g \in Goroutines |-> NoRestart]

\* handleShutdown up to the go statement: the status it writes
handleShutdown(basicAuth, code, method) ==
    IF ~basicAuth THEN StatusForbidden
    ELSE IF code # AuthSyncAdmin THEN StatusForbidden
    ELSE IF method = "POST" THEN StatusNoContent
    ELSE StatusMethodNotAllowed

\* restart == "true" || restart == "yes", after strings.ToLower
IsRestart(param) == ToLower(param) = "true" \/ ToLower(param) = "yes"

\* a shutdown request is answered; an accepted one starts its goroutine,
\* which first waits on a one-second timer
HandleShutdown(g) ==
    /\ restarts[g].pc = "idle"
    /\ \E ba \in BOOLEAN, code \in AuthCodes, m \in Methods, param \in RestartParams :
          LET resp == handleShutdown(ba, code, m)
          IN  restarts' = [restarts EXCEPT ![g] =
                  [pc |-> IF resp = StatusNoContent THEN "timer" ELSE "refused",
                   restart |-> IsRestart(param), blocking |-> FALSE, resp |-> resp]]
    /\ UNCHANGED <<waitingOnBlockChannel, blockedBefore, Running, ShutdownFrame>>

\* <-timer.C, then the branch on restart
ShutdownTimer(g) ==
    /\ restarts[g].pc = "timer"
    /\ restarts' = [restarts EXCEPT ![g].pc =
                       IF restarts[g].restart THEN "read" ELSE "stop"]
    /\ UNCHANGED <<waitingOnBlockChannel, blockedBefore, Running, ShutdownFrame>>

\* blocking := waitingOnBlockChannel
ShutdownReadBlocking(g) ==
    /\ restarts[g].pc = "read"
    /\ restarts' = [restarts EXCEPT ![g].pc = "clear",
                                    ![g].blocking = waitingOnBlockChannel]
    /\ UNCHANGED <<waitingOnBlockChannel, blockedBefore, Running, ShutdownFrame>>

\* waitingOnBlockChannel = false
ShutdownClearBlocking(g) ==
    /\ restarts[g].pc = "clear"
    /\ waitingOnBlockChannel' = FALSE
    /\ restarts' = [restarts EXCEPT ![g].pc = "stop"]
    /\ UNCHANGED <<blockedBefore, Running, ShutdownFrame>>

\* Stop(quieceTime), in either branch
ShutdownStop(g) ==
    /\ restarts[g].pc = "stop"
    /\ Running' = FALSE
    /\ restarts' = [restarts EXCEPT ![g].pc =
                       IF restarts[g].restart THEN "start" ELSE "done"]
    /\ UNCHANGED <<waitingOnBlockChannel, blockedBefore, ShutdownFrame>>

\* Start("", false)
ShutdownStart(g) ==
    /\ restarts[g].pc = "start"
    /\ Running' = TRUE
    /\ restarts' = [restarts EXCEPT ![g].pc = "restore"]
    /\ UNCHANGED <<waitingOnBlockChannel, blockedBefore, ShutdownFrame>>

\* waitingOnBlockChannel = blocking
ShutdownRestoreBlocking(g) ==
    /\ restarts[g].pc = "restore"
    /\ waitingOnBlockChannel' = restarts[g].blocking
    /\ restarts' = [restarts EXCEPT ![g].pc = "done"]
    /\ UNCHANGED <<blockedBefore, Running, ShutdownFrame>>

\* a restart cycle is the goroutine of an accepted request with restart set
RestartCycle(g) == restarts[g].restart /\ restarts[g].pc \notin {"idle", "refused"}

RestartCyclesCompleted ==
    /\ \E g \in Goroutines : RestartCycle(g)
    /\ \A g \in Goroutines :
          /\ restarts[g].pc \in {"idle", "refused", "done"}
          /\ (restarts[g].pc = "done" => restarts[g].restart)

\* C11: once all restart cycles have completed, waitingOnBlockChannel has the
\* value it had before the first of them began, whatever the number and the
\* interleaving of the restart requests
C11_FlagPreserved == RestartCyclesCompleted => waitingOnBlockChannel = blockedBefore

(***************************************************************************)
(* Leader election on the CSS (Storage leader primitives and their use)    *)
(***************************************************************************)
\* Configuration.LeadershipTimeout (30 seconds by default) in heartbeat periods of
\* ten seconds: the leader updates
\* the record every LeadershipTimeout/3
LeadershipTimeout == 3
HeartbeatPeriod == LeadershipTimeout \div 3

\* how long the election is followed, how often leadership changes hands and
\* how many UpdateLeader calls are recorded
MaxTime == 4
MaxVersion == 3
MaxUpdates == 3

Instances == {"A", "B", "C"}

NoLeaderDoc == [exists |-> FALSE, leaderID |-> "", version |-> 0, lastHeartbeat |-> 0]
NoInstance == [state |-> "down", seen |-> 0, called |-> FALSE]
NoInstances == [i \in Instances |-> NoInstance]

\* a heartbeat time that has always timed out
Resigned == 0 - (LeadershipTimeout + 1)

\* InsertInitialLeader: inserts the leader document if there is none
InsertInitialLeader(doc, leaderID, t) ==
    IF doc.exists THEN doc
    ELSE [exists |-> TRUE, leaderID |-> leaderID, version |-> 1, lastHeartbeat |-> t]

\* LeaderPeriodicUpdate: the leader's heartbeat, refused to anyone else
LeaderPeriodicUpdateOK(doc, leaderID) == doc.exists /\ doc.leaderID = leaderID

LeaderPeriodicUpdate(doc, leaderID, t) ==
    IF LeaderPeriodicUpdateOK(doc, leaderID) THEN [doc EXCEPT !.lastHeartbeat = t] ELSE doc

LeaderTimedOut_NoTimeout(doc, t) == TRUE

\* RetrieveLeader, and the takeover test lastHeartbeat + timeout < now
LeaderTimedOut(doc, t) == doc.lastHeartbeat + LeadershipTimeout < t

UpdateLeaderOK_NoVersionCheck(doc, version) == doc.exists

\* UpdateLeader succeeds iff the caller's version is the stored one
UpdateLeaderOK(doc, version) == doc.exists /\ doc.version = version

\* UpdateLeader: the takeover; a refused call changes nothing
UpdateLeader(doc, leaderID, version, t) ==
    IF UpdateLeaderOK(doc, version)
    THEN [doc EXCEPT !.leaderID = leaderID, !.version = doc.version + 1,
                     !.lastHeartbeat = t]
    ELSE doc

\* ResignLeadership: the record of the resigning leader times out at once
ResignLeadership(doc, leaderID) ==
    IF doc.exists /\ doc.leaderID = leaderID THEN [doc EXCEPT !.lastHeartbeat = Resigned]
    ELSE doc

\* step 1: on startup InsertInitialLeader; on success the instance leads
StartInstance(i) ==
    /\ css[i].state = "down"
    /\ leaderDoc' = InsertInitialLeader(leaderDoc, i, now)
    /\ css' = [css EXCEPT ![i].state = IF leaderDoc.exists THEN "follower" ELSE "leader"]
    /\ UNCHANGED <<now, updateLog, missedHeartbeat, LeaderFrame>>

\* step 2, first half: a follower reads the record and, when the leader
\* timed out, becomes a candidate holding the version it read
ReadLeader(i) ==
    /\ css[i].state = "follower"
    /\ leaderDoc.exists
    /\ LeaderTimedOut(leaderDoc, now)
    /\ leaderDoc.version < MaxVersion
    /\ css' = [css EXCEPT ![i] = [state |-> "candidate", seen |-> leaderDoc.version,
                                  called |-> FALSE]]
    /\ UNCHANGED <<leaderDoc, now, updateLog, missedHeartbeat, LeaderFrame>>

\* step 2, second half: UpdateLeader(myID, version); a follower that already
\* called may call again with the version it still holds
TakeOver(i) ==
    /\ \/ css[i].state = "candidate"
       \/ css[i].state = "follower" /\ css[i].called
    /\ Len(updateLog) < MaxUpdates
    /\ LET ok == UpdateLeaderOK(leaderDoc, css[i].seen)
           doc2 == UpdateLeader(leaderDoc, i, css[i].seen, now)
       IN  /\ leaderDoc' = doc2
           /\ css' = [css EXCEPT ![i].state = IF ok THEN "leader" ELSE "follower",
                                 ![i].called = TRUE]
           /\ updateLog' = Append(updateLog,
                  [id |-> i, version |-> css[i].seen, ok |-> ok,
                   retry |-> css[i].called, unchanged |-> doc2 = leaderDoc])
    /\ UNCHANGED <<now, missedHeartbeat, LeaderFrame>>

\* step 3: the leader's periodic update; failure demotes
Heartbeat(i) ==
    /\ css[i].state = "leader"
    /\ leaderDoc' = LeaderPeriodicUpdate(leaderDoc, i, now)
    /\ css' = [css EXCEPT ![i].state =
                  IF LeaderPeriodicUpdateOK(leaderDoc, i) THEN "leader" ELSE "follower"]
    /\ UNCHANGED <<now, updateLog, missedHeartbeat, LeaderFrame>>

\* step 4: graceful shutdown of any instance; the leader resigns
StopInstance(i) ==
    /\ css[i].state # "down"
    /\ leaderDoc' = IF css[i].state = "leader" THEN ResignLeadership(leaderDoc, i)
                    ELSE leaderDoc
    /\ css' = [css EXCEPT ![i] = NoInstance]
    /\ UNCHANGED <<now, updateLog, missedHeartbeat, LeaderFrame>>

\* the instance dies without resigning
CrashInstance(i) ==
    /\ css[i].state # "down"
    /\ css' = [css EXCEPT ![i] = NoInstance]
    /\ UNCHANGED <<leaderDoc, now, updateLog, missedHeartbeat, LeaderFrame>>

\* a leader is due for its periodic update before time moves on
HeartbeatDue(i) ==
    /\ css[i].state = "leader"
    /\ ~(leaderDoc.leaderID = i /\ now + 1 - leaderDoc.lastHeartbeat <= HeartbeatPeriod)

\* one heartbeat period passes, whether or not the running leader has made
\* its periodic update in it
Tick ==
    /\ now < MaxTime
    /\ now' = now + 1
    /\ missedHeartbeat' = (missedHeartbeat \/ \E i \in Instances : HeartbeatDue(i))
    /\ UNCHANGED <<leaderDoc, css, updateLog, LeaderFrame>>

(***************************************************************************)
(* Properties of the leader election                                       *)
(***************************************************************************)
UpdateCalls == 1..Len(updateLog)
SucceededWith(v) == {k \in UpdateCalls : updateLog[k].version = v /\ updateLog[k].ok}

\* C14: of the UpdateLeader calls made with one observed version exactly one
\* succeeds; a call that fails changes neither the leader ID nor the version,
\* and a repeated call with the version already used fails
C14_LeaderCAS ==
    \A k \in UpdateCalls :
        /\ Cardinality(SucceededWith(updateLog[k].version)) = 1
        /\ (~updateLog[k].ok => updateLog[k].unchanged)
        /\ (updateLog[k].retry => ~updateLog[k].ok)

\* two candidates called with the same version, one won and one lost, and a
\* later retry with that stale version failed
C14_Witness ==
    \E j, k, l \in UpdateCalls :
        /\ j # k /\ k < l
        /\ updateLog[j].version = updateLog[k].version
        /\ updateLog[j].id # updateLog[k].id
        /\ updateLog[j].ok /\ ~updateLog[k].ok
        /\ updateLog[l].retry /\ updateLog[l].version = updateLog[k].version
        /\ ~updateLog[l].ok

Leaders == {i \in Instances : css[i].state = "leader"}

MaxConsumers == 2

\* the applications and destinations that may call Decrement on the object
Callers == 1..(MaxConsumers + 1)

NoObject == [stored |-> FALSE, expectedConsumers |-> 0, remainingConsumers |-> 0,
             remainingReceivers |-> 0]
NoDecrements == [consumers |-> <<>>, receivers |-> <<>>]

\* StoreObject: both counters start at the object's expectedConsumers
StoreObjectCounters(expectedConsumers) ==
    [stored |-> TRUE, expectedConsumers |-> expectedConsumers,
     remainingConsumers |-> expectedConsumers, remainingReceivers |-> expectedConsumers]

Decrement_Clamped(n) == IF n > 0 THEN n - 1 ELSE 0

\* the atomic read-modify-write of DecrementAndReturnRemainingConsumers and
\* DecrementAndReturnRemainingReceivers: the value stored and returned
Decrement(n) == n - 1

ResetRemaining_Zero(obj) == [obj EXCEPT !.remainingConsumers = 0]

\* ResetObjectRemainingConsumers: back to the original ExpectedConsumers
ResetRemaining(obj) == [obj EXCEPT !.remainingConsumers = obj.expectedConsumers]

StoreObject ==
    /\ \E k \in 1..MaxConsumers : object' = StoreObjectCounters(k)
    /\ decrements' = NoDecrements
    /\ UNCHANGED CounterFrame

\* the callers that have not called since the counter was last set
NotYetCalled(log) == {c \in Callers : \A i \in 1..Len(log) : log[i].caller # c}

\* one caller's DecrementAndReturnRemainingConsumers; the calls on an object
\* are followed one past its expected number of consumers
DecrementAndReturnRemainingConsumers ==
    /\ object.stored
    /\ Len(decrements.consumers) <= object.expectedConsumers
    /\ \E c \in NotYetCalled(decrements.consumers) :
          decrements' = [decrements EXCEPT !.consumers =
              Append(decrements.consumers,
                     [caller |-> c, value |-> Decrement(object.remainingConsumers)])]
    /\ object' = [object EXCEPT !.remainingConsumers = Decrement(object.remainingConsumers)]
    /\ UNCHANGED CounterFrame

DecrementAndReturnRemainingReceivers ==
    /\ object.stored
    /\ Len(decrements.receivers) <= object.expectedConsumers
    /\ \E c \in NotYetCalled(decrements.receivers) :
          decrements' = [decrements EXCEPT !.receivers =
              Append(decrements.receivers,
                     [caller |-> c, value |-> Decrement(object.remainingReceivers)])]
    /\ object' = [object EXCEPT !.remainingReceivers = Decrement(object.remainingReceivers)]
    /\ UNCHANGED CounterFrame

ResetObjectRemainingConsumers ==
    /\ object.stored
    /\ object' = ResetRemaining(object)
    /\ decrements' = [decrements EXCEPT !.consumers = <<>>]
    /\ UNCHANGED CounterFrame

\* the values between lo and hi
Between(lo, hi) == {n \in lo..hi : TRUE}

\* C16: the calls of DecrementAndReturnRemainingConsumers made by different
\* callers on an object with expectedConsumers = k return pairwise distinct
\* values, each to one caller, and together the values k-1, k-2, ... down
\* to k-n for n calls, so that k+1 calls return exactly k-1, ..., 0, -1
C16_DistinctDecrements ==
    object.stored =>
        LET r == decrements.consumers
            k == object.expectedConsumers
        IN  /\ \A i, j \in 1..Len(r) :
                  i # j => r[i].value # r[j].value /\ r[i].caller # r[j].caller
            /\ {r[i].value : i \in 1..Len(r)} = Between(k - Len(r), k - 1)

\* k+1 calls have returned, the last of them -1
C16_Witness ==
    /\ object.stored
    /\ Len(decrements.consumers) = object.expectedConsumers + 1
    /\ decrements.consumers[Len(decrements.consumers)].value = 0 - 1

\* C17 as stated: both counters stay between 0 and expectedConsumers
C17_Original ==
    object.stored =>
        /\ object.remainingConsumers \in 0..object.expectedConsumers
        /\ object.remainingReceivers \in 0..object.expectedConsumers

\* C17 amended: a counter never exceeds expectedConsumers and is
\* expectedConsumers less the decrements made since it was last set; it is
\* non-negative as long as no more than expectedConsumers decrements were made
C17_CounterBounds ==
    object.stored =>
        /\ object.remainingConsumers = object.expectedConsumers - Len(decrements.consumers)
        /\ object.remainingReceivers = object.expectedConsumers - Len(decrements.receivers)
        /\ object.remainingConsumers <= object.expectedConsumers
        /\ object.remainingReceivers <= object.expectedConsumers

\* one decrement more than expectedConsumers left the counter at -1, and a
\* reset brought the consumers back while the receivers stay there
C17_Witness ==
    /\ object.stored
    /\ object.remainingReceivers = 0 - 1
    /\ object.remainingConsumers = object.expectedConsumers
    /\ Len(decrements.receivers) = object.expectedConsumers + 1

(***************************************************************************)
(* Delivery status of an object per destination (UpdateObjectDeliveryStatus)*)
(***************************************************************************)
\* the destinations an object may have
DeliveryDests == {"d1", "d2", "d3"}

\* the statuses a destination reports for an object
AckStatuses == {"delivering", "delivered", Consumed, Deleted, ErrorStatus}

NoDelivery == <<>>
NoAck == [status |-> "", dest |-> "", result |-> FALSE]

AllDeleted(dl) == \A d \in DOMAIN dl : dl[d] = Deleted

\* the object's statuses after UpdateObjectDeliveryStatus(status, ..., dest)
ApplyDeliveryStatus(dl, status, dest) == [dl EXCEPT ![dest] = status]

UpdateObjectDeliveryStatus_AnyDeleted(dl, status, dest) == status = Deleted

\* what UpdateObjectDeliveryStatus returns: true if the status is Deleted and
\* all the destinations are in status Deleted
UpdateObjectDeliveryStatus(dl, status, dest) ==
    status = Deleted /\ AllDeleted(ApplyDeliveryStatus(dl, status, dest))

\* a destination reports a status; its reports are ordered and deleted is
\* the last of them
AckStatus(dest, status) ==
    /\ dest \in DOMAIN delivery
    /\ delivery[dest] # Deleted
    /\ delivery' = ApplyDeliveryStatus(delivery, status, dest)
    /\ lastAck' = [status |-> status, dest |-> dest,
                   result |-> UpdateObjectDeliveryStatus(delivery, status, dest)]
    /\ ackLog' = IF status = Deleted
                 THEN Append(ackLog,
                        [dest |-> dest,
                         result |-> UpdateObjectDeliveryStatus(delivery, status, dest)])
                 ELSE ackLog
    /\ UNCHANGED DeliveryFrame

AckOther == \E d \in DeliveryDests, st \in AckStatuses \ {Deleted} : AckStatus(d, st)

AckDeleted == \E d \in DeliveryDests : AckStatus(d, Deleted)

Acknowledged(k) == {ackLog[i].dest : i \in 1..k}
TrueResults == {k \in 1..Len(ackLog) : ackLog[k].result}

ObjectTotal == 7
MaxDataChunkSize == 2

PartiallyReceived == "partiallyReceived"
CompletelyReceived == "completelyReceived"

Positions == 0..(ObjectTotal - 1)
ChunkOffsets == {o \in Positions : o % MaxDataChunkSize = 0}

ChunkLength(offset) ==
    IF offset + MaxDataChunkSize <= ObjectTotal THEN MaxDataChunkSize
    ELSE ObjectTotal - offset

\* the byte of the object's data at a position
Payload(pos) == pos + 1

\* the chunk of the object that starts at an offset, as the sender cuts it
Chunk(offset) ==
    [offset |-> offset, dataLength |-> ChunkLength(offset), total |-> ObjectTotal,
     isFirstChunk |-> offset = 0,
     isLastChunk |-> offset + ChunkLength(offset) = ObjectTotal,
     bytes |-> [k \in 1..ChunkLength(offset) |-> Payload(offset + k - 1)]]

\* nothing written yet: every byte is absent (0) and no chunk is recorded
NoData == [pos \in Positions |-> 0]
NothingReceived == [data |-> NoData, chunks |-> {}, status |-> PartiallyReceived]
NoAppend == [offset |-> 0 - 1, discarded |-> FALSE, before |-> NothingReceived]

Written(rcv) == {pos \in Positions : rcv.data[pos] # 0}

\* the written bytes cover [0, total) without a gap
Covered(rcv) == Written(rcv) = Positions

\* the chunk marked isLast has been written
LastWritten(rcv) == \E o \in rcv.chunks : Chunk(o).isLastChunk

\* a chunk is out of order when bytes before its offset are still missing
OutOfOrder(rcv, chunk) == \E pos \in Positions : pos < chunk.offset /\ rcv.data[pos] = 0

\* the chunk's offset collides with a range already written
Collides(rcv, chunk) == chunk.offset \in rcv.chunks

IsComplete_OnLast(rcv) == LastWritten(rcv)

\* the completion rule: all chunks present and the last one marked isLast
IsComplete(rcv) == Covered(rcv) /\ LastWritten(rcv)

\* the chunk's bytes copied at its offset and the chunk recorded
WriteChunk(rcv, chunk) ==
    [rcv EXCEPT
        !.data = [pos \in Positions |->
                     IF pos >= chunk.offset /\ pos < chunk.offset + chunk.dataLength
                     THEN chunk.bytes[pos - chunk.offset + 1]
                     ELSE rcv.data[pos]],
        !.chunks = rcv.chunks \cup {chunk.offset}]

SetStatus(rcv) ==
    [rcv EXCEPT !.status = IF IsComplete(rcv) THEN CompletelyReceived ELSE rcv.status]

AppendObjectData_ResetOnFirst(rcv, chunk, reject) ==
    IF reject /\ OutOfOrder(rcv, chunk) THEN rcv
    ELSE IF chunk.isFirstChunk
         THEN SetStatus(WriteChunk([rcv EXCEPT !.data = NoData, !.chunks = {}], chunk))
         ELSE IF Collides(rcv, chunk) THEN rcv
              ELSE SetStatus(WriteChunk(rcv, chunk))

\* AppendObjectData: a chunk that collides with a written range is ignored,
\* an out-of-order chunk the memory policy rejects is discarded, any other
\* chunk is written and the object completed when the rule allows
AppendObjectData(rcv, chunk, reject) ==
    IF Collides(rcv, chunk) THEN rcv
    ELSE IF reject /\ OutOfOrder(rcv, chunk) THEN rcv
    ELSE SetStatus(WriteChunk(rcv, chunk))

\* a chunk arrives, in any order and any number of times; reject is the
\* memory policy's verdict on it
AppendChunk ==
    \E o \in ChunkOffsets, reject \in BOOLEAN :
        LET after == AppendObjectData(received, Chunk(o), reject)
        IN  /\ received' = after
            /\ lastAppend' = [offset |-> o,
                              discarded |-> reject /\ OutOfOrder(received, Chunk(o))
                                            /\ ~Collides(received, Chunk(o)),
                              before |-> received]
            /\ appendOrder' = IF after.chunks # received.chunks
                              THEN Append(appendOrder, o) ELSE appendOrder
            /\ UNCHANGED ChunkFrame

Replayed == lastAppend.offset \in lastAppend.before.chunks

\* C20: appending a chunk that was already appended leaves the stored data,
\* the record of received chunks and the status as they were, also when the
\* object is already completelyReceived
C20_AppendIdempotent == Replayed => received = lastAppend.before

\* the first chunk was replayed after the object was completelyReceived
C20_Witness ==
    /\ Replayed
    /\ lastAppend.offset = 0
    /\ lastAppend.before.status = CompletelyReceived
    /\ received.status = CompletelyReceived

(***************************************************************************)
(* Object create/update and the instance timestamp                         *)
(***************************************************************************)

MaxInstance == 3

ObjectDests == {"d1", "d2"}
Descriptions == {"first", "second"}

\* the metadata of a create/update of the one key followed here, with the
\* destinations its selector resolves to
UpdateInputs ==
    [instance : 1..MaxInstance, description : Descriptions,
     destinations : SUBSET ObjectDests]

NoNotification == "none"

NoStoredObject ==
    [exists |-> FALSE, instance |-> 0, description |-> "", status |-> "",
     destinations |-> {}, notifications |-> [d \in ObjectDests |-> NoNotification]]

NoUpdate == [called |-> FALSE, meta |-> <<>>, err |-> "", before |-> NoStoredObject]

ReadyToSend == "ready"

IsOlderInstance_Never(meta, rec) == FALSE

\* "If the record exists and the new instance is older, reject"
IsOlderInstance(meta, rec) == rec.exists /\ meta.instance < rec.instance

\* an Update notification for each added destination, a Delete notification
\* for each removed one
NotifyDestinations(rec, meta) ==
    [d \in ObjectDests |->
        IF d \in meta.destinations \ rec.destinations THEN Update
        ELSE IF d \in rec.destinations \ meta.destinations THEN Delete
        ELSE rec.notifications[d]]

\* object create/update on an already validated metadata: the error returned
\* and the record afterwards
updateObject(rec, meta) ==
    IF IsOlderInstance(meta, rec)
    THEN [err |-> "older instance", object |-> rec]
    ELSE [err |-> Nil,
          object |-> [exists |-> TRUE, instance |-> meta.instance,
                      description |-> meta.description, status |-> ReadyToSend,
                      destinations |-> meta.destinations,
                      notifications |-> NotifyDestinations(rec, meta)]]

UpdateObject ==
    /\ \E meta \in UpdateInputs :
          LET r == updateObject(storedObject, meta)
          IN /\ storedObject' = r.object
             /\ lastStore' = [called |-> TRUE, meta |-> meta, err |-> r.err,
                              before |-> storedObject]
    /\ UNCHANGED InstanceFrame

\* the last create/update carried an instance older than the stored one
StaleUpdate ==
    /\ lastStore.called
    /\ lastStore.before.exists
    /\ lastStore.meta.instance < lastStore.before.instance

\* C21: a create/update whose instance timestamp is older than the stored
\* instance of the same key is rejected with an error and leaves the stored
\* metadata, status, destinations and notifications as they were; over every
\* create/update the stored instance timestamp never decreases
C21_StaleRejected ==
    /\ StaleUpdate => lastStore.err # Nil /\ storedObject = lastStore.before
    /\ lastStore.called => storedObject.instance >= lastStore.before.instance

\* a stale update of an object that routes it elsewhere has been refused
C21_Witness ==
    /\ StaleUpdate
    /\ lastStore.err # Nil
    /\ lastStore.meta.destinations # lastStore.before.destinations
    /\ lastStore.meta.description # lastStore.before.description

(***************************************************************************)
(* Methods, response statuses and webhook actions                          *)
(***************************************************************************)
\* the one method the endpoints without sub-resources serve
EndpointMethod(handler) ==
    CASE handler = "handleDestinations" -> "GET"
      [] handler = "handleResend" -> "POST"
      [] handler = "handleGetOrganizations" -> "GET"
      [] OTHER -> ""

UnsupportedMethod == EndpointMethod(apiReq.handler) \notin {"", apiReq.method}

\* C22: a request whose method the addressed endpoint does not support
\* triggers no core or store operation, and a request answered 405 is
\* answered nothing else and triggers no core or store operation
C22_MethodNotAllowed ==
    /\ UnsupportedMethod => CoreOps = {}
    /\ StatusMethodNotAllowed \in HeadersWritten =>
          CoreOps = {} /\ HeadersWritten = {StatusMethodNotAllowed}

\* the statuses written on the request, in the order they were written
StatusesWritten == SelectSeq(apiResp, LAMBDA e : e.k = "hdr")

\* C27: every handler writes the response status at most once per request
C27_StatusWrittenOnce == Len(StatusesWritten) <= 1

\* the path left after the organization has been taken from it
RoutedParts == IF nodeType = CSS THEN Tail(apiReq.parts) ELSE apiReq.parts

\* the request is routed to handleWebhook and passes its method check
WebhookRequest ==
    /\ ObjectRequest
    /\ apiReq.running
    /\ ~PathEmpty(apiReq.parts)
    /\ ~(nodeType = CSS /\ Len(apiReq.parts) = 1)
    /\ Len(RoutedParts) = 1 \/ (Len(RoutedParts) = 2 /\ RoutedParts[2] = "")
    /\ apiReq.method = "PUT"

WebhookOps == {"registerWebhook", "deleteWebhook"}

RegisterOrDelete ==
    EqualFold(apiReq.action, "register") \/ EqualFold(apiReq.action, "delete")

\* C30: a webhook request reaches registerWebhook or deleteWebhook only when
\* its action is register or delete, compared without regard to case; with
\* any other action no webhook operation is made and 200 is not written
C30_WebhookAction ==
    WebhookRequest =>
        /\ (CoreOps \cap WebhookOps # {} => RegisterOrDelete)
        /\ (~RegisterOrDelete => CoreOps = {} /\ StatusOK \notin HeadersWritten)

(***************************************************************************)
(* Organizations are kept apart                                            *)
(***************************************************************************)
OrgScopedHandlers ==
    {"handleDestinations", "handleGetOrganizations", "handleOrganizations",
     "handleSecurity"}

\* the organization the request addresses, "" when it addresses none
AddressedOrg ==
    CASE apiReq.handler = "handleDestinations" ->
            IF nodeType = CSS
            THEN (IF PathEmpty(apiReq.parts) THEN "" ELSE apiReq.parts[1])
            ELSE ConfigOrgID
      [] apiReq.handler = "handleOrganizations" ->
            IF PathEmpty(apiReq.parts) THEN "" ELSE apiReq.parts[1]
      [] apiReq.handler = "handleSecurity" ->
            IF Len(apiReq.parts) >= 2 THEN apiReq.parts[2] ELSE ""
      [] OTHER -> ""

\* the organizations the request operated on or was given in the answer
OrgsTouched ==
    {apiResp[i].org : i \in {k \in 1..Len(apiResp) : apiResp[k].org # ""}}

Refusals ==
    {StatusForbidden, StatusBadRequest, StatusMethodNotAllowed, StatusServiceUnavailable}

\* C29: through the destinations, organizations and security endpoints a
\* caller that is not a sync-admin only operates on, and is only shown, its
\* own organization: a request that addresses another organization makes no
\* core or store operation and is refused, with 403 unless the path is
\* malformed (400) or, on the destinations endpoint, the method is not GET
\* (405); the organizations list holds the caller's organization only
C29_OrgIsolation ==
    (apiReq.handler \in OrgScopedHandlers /\ apiReq.code # AuthSyncAdmin) =>
        /\ OrgsTouched \subseteq {apiReq.userOrg}
        /\ (AddressedOrg \notin {"", apiReq.userOrg} =>
               /\ CoreOps = {}
               /\ HeadersWritten \subseteq Refusals
               /\ (apiReq.running /\ apiReq.basicAuth /\ apiReq.code = AuthAdmin
                      /\ apiReq.handler # "handleDestinations"
                      /\ StatusBadRequest \notin HeadersWritten =>
                   HeadersWritten = {StatusForbidden}))
        /\ (apiReq.handler = "handleDestinations" /\ apiReq.method = "GET"
               /\ apiReq.running /\ apiReq.basicAuth
               /\ apiReq.code \in {AuthAdmin, AuthUser}
               /\ AddressedOrg \notin {"", apiReq.userOrg} =>
            HeadersWritten = {StatusForbidden})

\* the admin of one organization listed the organizations of a store that
\* holds two and was shown its own
C29_Witness ==
    /\ apiReq.handler = "handleGetOrganizations"
    /\ apiReq.code = AuthAdmin
    /\ apiReq.method = "GET"
    /\ OrgsTouched = {apiReq.userOrg}
    /\ Len(StoredOrganizations) = 2

(***************************************************************************)
(* Access control lists                                                    *)
(***************************************************************************)

MaxACLOps == 3

Usernames == {"u1", "u2"}

\* the username arguments followed: one name, or two, possibly the same
UsernameLists ==
    {<<u>> : u \in Usernames} \cup {<<u, v>> : u \in Usernames, v \in Usernames}

NoACL == [exists |-> FALSE, usernames |-> <<>>]
NoACLGet == [called |-> FALSE, resp |-> <<>>, usernames |-> <<>>]

\* the usernames of a list that are not yet on the ACL are appended to it
RECURSIVE AppendNewUsers(_, _)
AppendNewUsers(list, usernames) ==
    IF usernames = <<>> THEN list
    ELSE AppendNewUsers(IF Head(usernames) \in Range(list) THEN list
                        ELSE Append(list, Head(usernames)),
                        Tail(usernames))

\* Storage.AddUsersToACL: the ACL is created when it does not exist
addUsersToACL(a, usernames) ==
    [exists |-> TRUE, usernames |-> AppendNewUsers(a.usernames, usernames)]

\* Storage.RemoveUsersFromACL: an ACL left without usernames is deleted
removeUsersFromACL(a, usernames) ==
    LET left == SelectSeq(a.usernames, LAMBDA u : u \notin Range(usernames))
    IN  IF left = <<>> THEN NoACL ELSE [exists |-> a.exists, usernames |-> left]

\* Storage.RetrieveACL: the usernames on the ACL, none when there is no ACL
retrieveACL(a) == IF a.exists THEN a.usernames ELSE <<>>

AddUsersToACL ==
    /\ Len(aclLog) < MaxACLOps
    /\ \E usernames \in UsernameLists :
          /\ acl' = addUsersToACL(acl, usernames)
          /\ aclLog' = Append(aclLog, [op |-> "add", usernames |-> usernames])
    /\ lastACLGet' = NoACLGet
    /\ UNCHANGED ACLFrame

RemoveUsersFromACL ==
    /\ Len(aclLog) < MaxACLOps
    /\ \E usernames \in UsernameLists :
          /\ acl' = removeUsersFromACL(acl, usernames)
          /\ aclLog' = Append(aclLog, [op |-> "remove", usernames |-> usernames])
    /\ lastACLGet' = NoACLGet
    /\ UNCHANGED ACLFrame

\* GET /api/v1/security/objects/org1/k by the administrator of org1: what
\* handleACLGet answers when retrieveACL returns the stored usernames
GetACL ==
    /\ ~lastACLGet.called
    /\ LET results == retrieveACL(acl)
           req == [NoRequest EXCEPT !.handler = "handleSecurity", !.basicAuth = TRUE,
                      !.code = AuthAdmin, !.parts = <<"objects", "org1", "k">>,
                      !.running = TRUE,
                      !.outcome = IF Len(results) = 0 THEN "empty" ELSE "ok"]
       IN  lastACLGet' =
               [called |-> TRUE, resp |-> handleACLGet("objects", "org1", <<"k">>, req),
                usernames |-> results]
    /\ UNCHANGED <<acl, aclLog, ACLFrame>>

\* the usernames added and not later removed
RECURSIVE UsersAfter(_)
UsersAfter(log) ==
    IF log = <<>> THEN {}
    ELSE LET before == UsersAfter(SubSeq(log, 1, Len(log) - 1))
             last == log[Len(log)]
         IN  IF last.op = "add" THEN before \cup Range(last.usernames)
             ELSE before \ Range(last.usernames)

GetStatuses ==
    {lastACLGet.resp[i].code :
        i \in {k \in 1..Len(lastACLGet.resp) : lastACLGet.resp[k].k = "hdr"}}

\* C23: an ACL behaves as a set of usernames: after any sequence of add and
\* remove operations RetrieveACL returns exactly the usernames added and not
\* later removed, each once; once none is left the ACL does not exist and a
\* GET of it is answered 404, and 200 otherwise
C23_ACLIsSet ==
    /\ Range(retrieveACL(acl)) = UsersAfter(aclLog)
    /\ Cardinality(Range(retrieveACL(acl))) = Len(retrieveACL(acl))
    /\ UsersAfter(aclLog) = {} => ~acl.exists
    /\ lastACLGet.called =>
          /\ Range(lastACLGet.usernames) = UsersAfter(aclLog)
          /\ GetStatuses =
                (IF UsersAfter(aclLog) = {} THEN {StatusNotFound} ELSE {StatusOK})

\* usernames were added, all of them were removed again, and the GET that
\* followed was answered 404
C23_Witness ==
    /\ Len(aclLog) >= 2
    /\ aclLog[1].op = "add"
    /\ aclLog[Len(aclLog)].op = "remove"
    /\ ~acl.exists
    /\ lastACLGet.called
    /\ GetStatuses = {StatusNotFound}

(***************************************************************************)
(* ValidateConfig                                                          *)
(*                                                                         *)
(* Strings that are cut, joined or tested for a prefix are sequences of    *)
(* their pieces; CommunicationProtocol is the sequence of its words and    *)
(* commas.                                                                 *)
(***************************************************************************)

MaxValidations == 2

ListeningBoth == "both"
ListeningSecurely == "secure"
ListeningUnsecurely == "unsecure"
ListeningUnix == "unix"

MQTTProtocol == "mqtt"
HTTPProtocol == "http"
HybridMQTT == "hybrid-mqtt"
HybridWIoTP == "hybrid-wiotp"
WIoTP == "wiotp"

ParallelMQTTModes == {"none", "small", "medium", "large"}

HasPrefix(str, prefix) ==
    Len(str) >= Len(prefix) /\ SubSeq(str, 1, Len(prefix)) = prefix

HasSuffix(str, suffix) ==
    Len(str) >= Len(suffix) /\ SubSeq(str, Len(str) - Len(suffix) + 1, Len(str)) = suffix

\* the directory os.Getwd returns
Cwd == <<"/", "w">>

\* the client id suffixes rand.Int63n can produce
RandomIDs == {"1", "2"}

\* the configuration in init(), with a destination named
DefaultConfiguration ==
    [PersistenceRootPath |-> <<"/", "p">>, NodeType |-> CSS,
     DestinationType |-> <<"dt">>, DestinationID |-> <<"id">>, OrgID |-> <<>>,
     CSSOnWIoTP |-> FALSE, ListeningType |-> "",
     UnsecureListeningPort |-> 8080, SecureListeningPort |-> 8443,
     ServerCertificate |-> "", ServerKey |-> "", ListeningAddress |-> "",
     CommunicationProtocol |-> <<MQTTProtocol>>, UsingEdgeConnector |-> FALSE,
     MQTTUserName |-> "", MQTTPassword |-> "", BrokerAddress |-> <<>>,
     BrokerPort |-> 0, MQTTClientID |-> <<>>, HTTPCSSHost |-> "", HTTPCSSPort |-> 0,
     MQTTParallelMode |-> "", MaxInflightChunks |-> 1]

\* a running validation: the configuration so far, the error to return and
\* the local variables mqtt, http and wiotp
Failed(v, message) == [v EXCEPT !.err = message]
Step(v, F(_)) == IF v.err # Nil THEN v ELSE F(v)

\* a relative PersistenceRootPath is made absolute (part_001:321-334)
validatePersistenceRootPath(v, getwdOK) ==
    LET path == v.c.PersistenceRootPath
    IN  IF HasPrefix(path, <<".", "/">>) \/ HasPrefix(path, <<".", ".", "/">>)
        THEN IF ~getwdOK THEN Failed(v, "Couldn't determine the current directory")
             ELSE IF HasPrefix(path, <<".", "/">>)
                  THEN [v EXCEPT !.c.PersistenceRootPath = Cwd \o Tail(path)]
                  ELSE [v EXCEPT !.c.PersistenceRootPath = Cwd \o <<"/">> \o path]
        ELSE v

validateNodeType(v) ==
    IF EqualFold(v.c.NodeType, CSS) THEN [v EXCEPT !.c.NodeType = CSS]
    ELSE IF EqualFold(v.c.NodeType, ESS) THEN [v EXCEPT !.c.NodeType = ESS]
    ELSE Failed(v, "The node type is incorrect")

validateDestination(v) ==
    IF v.c.DestinationType = <<>> THEN Failed(v, "Please specify the destination type")
    ELSE IF v.c.DestinationID = <<>> THEN Failed(v, "Please specify the destination id")
    ELSE IF v.c.NodeType = ESS /\ v.c.OrgID = <<>>
         THEN Failed(v, "Please specify the organization id")
    ELSE IF v.c.NodeType = CSS /\ ~v.c.CSSOnWIoTP /\ v.c.OrgID # <<>>
         THEN [v EXCEPT !.single = TRUE]
    ELSE v

SecureRequested(listeningType) == listeningType \in {ListeningSecurely, ListeningBoth}
UnsecureRequested(listeningType) == listeningType \in {ListeningUnsecurely, ListeningBoth}

validateListening(v) ==
    LET lower == ToLower(v.c.ListeningType)
        listeningType ==
            IF lower = "" THEN (IF v.c.NodeType = ESS THEN ListeningSecurely
                                ELSE ListeningUnsecurely)
            ELSE lower
        w == [v EXCEPT !.c.ListeningType = listeningType]
    IN  IF listeningType \notin
              {ListeningBoth, ListeningSecurely, ListeningUnsecurely, ListeningUnix}
        THEN Failed([v EXCEPT !.c.ListeningType = lower], "ListeningType must be ...")
        ELSE IF UnsecureRequested(listeningType) /\ w.c.UnsecureListeningPort = 0
             THEN Failed(w, "the UnsecureListeningPort is zero")
        ELSE IF SecureRequested(listeningType) /\ w.c.SecureListeningPort = 0
             THEN Failed(w, "the SecureListeningPort is zero")
        ELSE IF w.c.NodeType = CSS /\ SecureRequested(listeningType)
                  /\ w.c.ServerCertificate = ""
             THEN Failed(w, "no server certificate has been specified")
        ELSE IF w.c.NodeType = CSS /\ SecureRequested(listeningType) /\ w.c.ServerKey = ""
             THEN Failed(w, "no server private key has been specified")
        ELSE IF listeningType = ListeningUnix /\ w.c.NodeType # ESS
             THEN Failed(w, "Only an ESS can listen via Unix Sockets")
        ELSE IF listeningType = ListeningUnix /\ w.c.ListeningAddress = ""
             THEN Failed(w, "you must specify the Socket file")
        ELSE w

\* one of the words of the list equals the protocol name, whatever its case
Names(protocols, name) ==
    \E i \in 1..Len(protocols) :
        Len(protocols[i]) = 1 /\ EqualFold(protocols[i][1], name)

ProtocolChosen_First(nt, mqtt, http, wiotp) ==
    IF mqtt THEN MQTTProtocol ELSE IF wiotp THEN WIoTP ELSE HTTPProtocol

\* the protocol ValidateConfig settles on; "" when the list is refused
ProtocolChosen(nt, mqtt, http, wiotp) ==
    IF nt = ESS
    THEN IF (mqtt /\ http) \/ (mqtt /\ wiotp) \/ (http /\ wiotp) THEN ""
         ELSE IF mqtt THEN MQTTProtocol
         ELSE IF wiotp THEN WIoTP
         ELSE HTTPProtocol
    ELSE IF wiotp /\ mqtt THEN ""
         ELSE IF http
              THEN IF mqtt THEN HybridMQTT
                   ELSE IF wiotp THEN HybridWIoTP
                   ELSE HTTPProtocol
              ELSE IF mqtt THEN MQTTProtocol ELSE WIoTP

validateCommunicationProtocol(v) ==
    LET protocols == Split(v.c.CommunicationProtocol, ",")
        mqtt == Names(protocols, "mqtt")
        wiotp == Names(protocols, "wiotp")
        http == Names(protocols, "http")
        w == [v EXCEPT !.mqtt = mqtt, !.wiotp = wiotp, !.http = http]
        chosen == ProtocolChosen(v.c.NodeType, mqtt, http, wiotp)
    IN  IF ~mqtt /\ ~http /\ ~wiotp
        THEN Failed(w, "Invalid communication protocol, please choose either HTTP or MQTT or WIoTP")
        ELSE IF chosen = ""
             THEN Failed(w, "Invalid communication protocol, please choose one")
             ELSE [w EXCEPT !.c.CommunicationProtocol = <<chosen>>]

validateMQTTUser(v) ==
    IF v.c.NodeType = CSS /\ v.c.CSSOnWIoTP /\ v.mqtt
    THEN Failed(v, "CSS on Watson IoTP should use wiotp protocol")
    ELSE IF (v.mqtt \/ (v.wiotp /\ (v.c.UsingEdgeConnector \/ v.c.NodeType = CSS)))
              /\ v.c.MQTTUserName = "" /\ v.c.MQTTPassword # ""
         THEN Failed(v, "Please specify the user name for MQTT communication")
    ELSE v

validateBrokerCSS(v) ==
    IF v.c.NodeType = CSS /\ v.c.CommunicationProtocol # <<HTTPProtocol>>
    THEN IF v.c.CSSOnWIoTP /\ ~HasPrefix(v.c.BrokerAddress, <<"[">>)
         THEN Failed(v, "Please specify the broker addresses for messaging groups")
         ELSE IF ~v.c.CSSOnWIoTP /\ HasPrefix(v.c.BrokerAddress, <<"[">>)
              THEN Failed(v, "Please provide one broker address for CSS outside WIoTP")
              ELSE v
    ELSE v

IfEmpty(str, default) == IF str = <<>> THEN default ELSE str
IfZero(n, default) == IF n = 0 THEN default ELSE n

IBMCloud == ".messaging.internetofthings.ibmcloud.com"

validateBrokerESS(v, rnd) ==
    LET c == v.c
    IN  IF c.NodeType = ESS /\ c.CommunicationProtocol # <<HTTPProtocol>>
        THEN IF HasPrefix(c.BrokerAddress, <<"[">>)
             THEN Failed(v, "Please provide one broker address")
             ELSE IF v.wiotp
                  THEN IF c.UsingEdgeConnector
                       THEN [v EXCEPT
                               !.c.MQTTClientID = IfEmpty(@, <<"a:sync-service">>),
                               !.c.BrokerAddress = IfEmpty(@, <<"edge-connector">>),
                               !.c.BrokerPort = IfZero(@, 8883)]
                       ELSE IF c.MQTTPassword = ""
                            THEN Failed(v, "Please provide password for MQTT connection")
                            ELSE [v EXCEPT
                                    !.c.MQTTUserName = "use-token-auth",
                                    !.c.MQTTClientID =
                                        IfEmpty(@, <<"g:">> \o c.OrgID \o <<":">>
                                                   \o c.DestinationType \o <<":">>
                                                   \o c.DestinationID),
                                    !.c.BrokerAddress = IfEmpty(@, c.OrgID \o <<IBMCloud>>),
                                    !.c.BrokerPort = IfZero(@, 8883)]
                  ELSE [v EXCEPT
                          !.c.MQTTClientID = IfEmpty(@, <<"ESS-", rnd>>),
                          !.c.BrokerAddress = IfEmpty(@, <<"localhost">>),
                          !.c.BrokerPort = IfZero(@, 1883)]
        ELSE v

defaultBrokerCSS(v, rnd) ==
    LET c == v.c
    IN  IF c.NodeType = CSS /\ c.CommunicationProtocol # <<HTTPProtocol>>
        THEN IF v.wiotp /\ ~c.CSSOnWIoTP
             THEN [v EXCEPT
                     !.c.BrokerAddress =
                         IfEmpty(@, IF v.single THEN c.OrgID \o <<IBMCloud>>
                                    ELSE <<"messaging.internetofthings.ibmcloud.com">>),
                     !.c.BrokerPort = IfZero(@, 8883),
                     !.c.MQTTClientID =
                         IF v.single THEN IfEmpty(@, <<"A:">> \o c.OrgID \o <<":CSS">>)
                         ELSE @]
             ELSE IF v.mqtt
                  THEN [v EXCEPT
                          !.c.BrokerAddress = IfEmpty(@, <<"localhost">>),
                          !.c.BrokerPort = IfZero(@, 1883),
                          !.c.MQTTClientID = IfEmpty(@, <<"CSS-", rnd>>)]
                  ELSE v
        ELSE v

validateHTTP(v) ==
    IF v.c.NodeType = ESS /\ v.c.CommunicationProtocol = <<HTTPProtocol>>
          /\ (v.c.HTTPCSSHost = "" \/ v.c.HTTPCSSPort = 0)
    THEN Failed(v, "Please specify the host and port of CSS for HTTP communication")
    ELSE IF ~HasSuffix(v.c.PersistenceRootPath, <<"/">>)
         THEN [v EXCEPT !.c.PersistenceRootPath = @ \o <<"/">>]
         ELSE v

validateMQTTParallelMode(v) ==
    LET mode == ToLower(v.c.MQTTParallelMode)
        w == [v EXCEPT !.c.MQTTParallelMode = mode]
    IN  IF mode \in ParallelMQTTModes \cup {""} THEN w
        ELSE Failed(w, "Invalid MQTTParallelMode")

MaxInflightChunks_NoCap(n, nt) == IF n < 1 THEN 1 ELSE n

\* the inflight window ValidateConfig leaves (part_001:567-572)
MaxInflightChunks(n, nt) ==
    LET atLeastOne == IF n < 1 THEN 1 ELSE n
    IN  IF atLeastOne > 64 /\ nt = CSS THEN 64 ELSE atLeastOne

validateMaxInflightChunks(v) ==
    [v EXCEPT !.c.MaxInflightChunks = MaxInflightChunks(@, v.c.NodeType)]

\* ValidateConfig on the configuration c: the error returned, "nil" for
\* none, and Configuration and SingleOrgCSS as the call leaves them
ValidateConfig(c, single, getwdOK, rnd) ==
    LET v0 == [c |-> c, single |-> single, err |-> Nil,
               mqtt |-> FALSE, http |-> FALSE, wiotp |-> FALSE]
        v1 == validatePersistenceRootPath(v0, getwdOK)
        v2 == Step(v1, validateNodeType)
        v3 == Step(v2, validateDestination)
        v4 == Step(v3, validateListening)
        v5 == Step(v4, validateCommunicationProtocol)
        v6 == Step(v5, validateMQTTUser)
        v7 == Step(v6, validateBrokerCSS)
        v8 == Step(v7, LAMBDA v : validateBrokerESS(v, rnd))
        v9 == Step(v8, LAMBDA v : defaultBrokerCSS(v, rnd))
        v10 == Step(v9, validateHTTP)
        v11 == Step(v10, validateMQTTParallelMode)
        v12 == Step(v11, validateMaxInflightChunks)
    IN  [err |-> v12.err, Configuration |-> v12.c, SingleOrgCSS |-> v12.single]

\* the words a configured protocol list is made of
ProtocolWords == {"mqtt", "MQTT", "wiotp", "http", "hybrid-mqtt", "bogus"}

\* the empty string, one word, or two words with a comma between them
ProtocolLists ==
    {<<>>} \cup {<<w>> : w \in ProtocolWords}
        \cup {<<w1, ",", w2>> : w1 \in ProtocolWords, w2 \in ProtocolWords}

\* configurations that differ in the node, the protocol and the broker
MessagingConfigurations ==
    {[DefaultConfiguration EXCEPT
         !.NodeType = nt, !.CommunicationProtocol = protocols, !.CSSOnWIoTP = onWIoTP,
         !.UsingEdgeConnector = ec, !.BrokerAddress = broker, !.MQTTPassword = password,
         !.MaxInflightChunks = inflight, !.OrgID = org,
         !.HTTPCSSHost = "css", !.HTTPCSSPort = 8080] :
        nt \in {"CSS", "css", "ESS", "bogus"}, protocols \in ProtocolLists,
        onWIoTP \in BOOLEAN, ec \in BOOLEAN,
        broker \in {<<>>, <<"[", "g", "]">>, <<"host">>}, password \in {"", "pw"},
        inflight \in {-1, 0, 1, 64, 65}, org \in {<<>>, <<"org1">>}}

\* configurations that differ in how the node listens and in what it is named
ListeningConfigurations ==
    {[DefaultConfiguration EXCEPT
         !.NodeType = nt, !.OrgID = <<"org1">>, !.ListeningType = listeningType,
         !.UnsecureListeningPort = unsecurePort, !.SecureListeningPort = securePort,
         !.ServerCertificate = certificate, !.ServerKey = certificate,
         !.ListeningAddress = address, !.PersistenceRootPath = path,
         !.MQTTParallelMode = mode, !.DestinationType = destType,
         !.DestinationID = destID, !.MQTTUserName = user] :
        nt \in {CSS, ESS}, listeningType \in {"", "Secure", "unix", "both", "bogus"},
        unsecurePort \in {0, 8080}, securePort \in {0, 8443},
        certificate \in {"", "pem"}, address \in {"", "sock"},
        path \in {<<".", "/", "p">>, <<".", ".", "/", "p">>, <<"/", "p">>, <<"/", "p", "/">>},
        mode \in {"", "Small", "large", "bogus"},
        destType \in {<<>>, <<"dt">>}, destID \in {<<>>, <<"id">>}, user \in {"", "u"}}

\* a start of the service, or a restart in the same process: ValidateConfig
\* runs on common.Configuration as the last run left it
CallValidateConfig ==
    /\ Len(validations) < MaxValidations
    /\ \E getwdOK \in BOOLEAN, rnd \in RandomIDs :
          LET r == ValidateConfig(Configuration, SingleOrgCSS, getwdOK, rnd)
          IN  /\ Configuration' = r.Configuration
              /\ SingleOrgCSS' = r.SingleOrgCSS
              /\ validations' = Append(validations,
                                       [err |-> r.err, before |-> Configuration,
                                        after |-> r.Configuration])
    /\ UNCHANGED ConfigFrame

Accepted == {i \in 1..Len(validations) : validations[i].err = Nil}

\* C24: after ValidateConfig returns without error MaxInflightChunks is at
\* least 1 and, on a CSS, at most 64, whatever value was configured
C24_InflightWindow ==
    \A i \in Accepted :
        /\ validations[i].after.MaxInflightChunks >= 1
        /\ (validations[i].after.NodeType = CSS =>
               validations[i].after.MaxInflightChunks <= 64)

\* a CSS configured with a window of 65 has been validated and left with 64
C24_Witness ==
    /\ 1 \in Accepted
    /\ validations[1].before.MaxInflightChunks = 65
    /\ validations[1].after.NodeType = CSS
    /\ validations[1].after.MaxInflightChunks = 64

\* the protocols, of mqtt, wiotp and http, that a configured list names
ProtocolsNamed(str) ==
    {name \in {MQTTProtocol, WIoTP, HTTPProtocol} : Names(Split(str, ","), name)}

\* C25: after ValidateConfig returns without error CommunicationProtocol is
\* one of mqtt, wiotp, http, hybrid-mqtt and hybrid-wiotp; on an ESS it is
\* one of mqtt, wiotp and http and the configured list named one protocol
\* only; on a CSS the configured list did not name both mqtt and wiotp
C25_Protocol ==
    \A i \in Accepted :
        LET before == validations[i].before
            after == validations[i].after
        IN  /\ after.CommunicationProtocol \in
                  {<<MQTTProtocol>>, <<WIoTP>>, <<HTTPProtocol>>, <<HybridMQTT>>,
                   <<HybridWIoTP>>}
            /\ (after.NodeType = ESS =>
                   /\ after.CommunicationProtocol \in
                         {<<MQTTProtocol>>, <<WIoTP>>, <<HTTPProtocol>>}
                   /\ Cardinality(ProtocolsNamed(before.CommunicationProtocol)) = 1)
            /\ (after.NodeType = CSS =>
                   ~({MQTTProtocol, WIoTP} \subseteq
                        ProtocolsNamed(before.CommunicationProtocol)))

\* a CSS configured with the list "http,mqtt" has been validated and left
\* with hybrid-mqtt
C25_Witness ==
    /\ 1 \in Accepted
    /\ validations[1].before.CommunicationProtocol = <<"http", ",", "MQTT">>
    /\ validations[1].after.NodeType = CSS
    /\ validations[1].after.CommunicationProtocol = <<HybridMQTT>>

\* C28: ValidateConfig is idempotent on accepted configurations: called
\* again on the configuration an accepted call left, it returns without
\* error and leaves every field unchanged
C28_Idempotent ==
    \A i \in Accepted :
        i < Len(validations) =>
            /\ validations[i + 1].err = Nil
            /\ validations[i + 1].after = validations[i + 1].before

(***************************************************************************)
(* Collection IDs (strings are sequences of characters)                    *)
(***************************************************************************)

\* organization IDs, types and IDs, some of them with a colon inside
IDStrings == {<<"a">>, <<"b">>, <<"a", ":", "b">>, <<"b", ":", "a">>}

IDTriples == IDStrings \X IDStrings \X IDStrings

NoIDs == [function |-> "none", ids |-> <<>>]

createObjectCollectionID(orgID, objectType, objectID) ==
    orgID \o <<":">> \o objectType \o <<":">> \o objectID

createDestinationCollectionID(orgID, destType, destID) ==
    orgID \o <<":">> \o destType \o <<":">> \o destID

\* the IDs of two objects are computed
CreateObjectCollectionIDs ==
    /\ idResult = NoIDs
    /\ idResult' =
          [function |-> "createObjectCollectionID",
           ids |-> [i \in 1..Len(idArgs) |->
                       createObjectCollectionID(idArgs[i][1], idArgs[i][2], idArgs[i][3])]]
    /\ UNCHANGED <<idArgs, IDFrame>>

\* the IDs of two destinations are computed
CreateDestinationCollectionIDs ==
    /\ idResult = NoIDs
    /\ idResult' =
          [function |-> "createDestinationCollectionID",
           ids |-> [i \in 1..Len(idArgs) |->
                       createDestinationCollectionID(idArgs[i][1], idArgs[i][2],
                                                     idArgs[i][3])]]
    /\ UNCHANGED <<idArgs, IDFrame>>

\* C26: createObjectCollectionID maps two different triples (orgID,
\* objectType, objectID) to two different collection IDs, and
\* createDestinationCollectionID does the same for destination triples
C26_Injective ==
    (idResult # NoIDs /\ idArgs[1] # idArgs[2]) => idResult.ids[1] # idResult.ids[2]

(***************************************************************************)
(* Specifications                                                          *)
(***************************************************************************)
NoStore == [dests |-> {}, hasList |-> FALSE, objDests |-> <<>>]

\* resendNotification on every notification and both values of the flag
InitResend ==
    /\ notification \in [ObjectID : NotificationKeys, Status : NotificationStatuses]
    /\ retrieveReceived \in BOOLEAN
    /\ resendCalled = FALSE
    /\ resendResult = FALSE
    /\ destStore = NoStore
    /\ dcall = NoCall
    /\ Running = FALSE
    /\ nodeType = CSS
    /\ apiReq = NoRequest
    /\ apiResp = <<>>
    /\ waitingOnBlockChannel = FALSE
    /\ blockedBefore = FALSE
    /\ restarts = NoRestarts
    /\ leaderDoc = NoLeaderDoc
    /\ css = NoInstances
    /\ now = 0
    /\ updateLog = <<>>
    /\ missedHeartbeat = FALSE
    /\ object = NoObject
    /\ decrements = NoDecrements
    /\ delivery = NoDelivery
    /\ lastAck = NoAck
    /\ ackLog = <<>>
    /\ received = NothingReceived
    /\ lastAppend = NoAppend
    /\ appendOrder = <<>>
    /\ storedObject = NoStoredObject
    /\ lastStore = NoUpdate
    /\ acl = NoACL
    /\ aclLog = <<>>
    /\ lastACLGet = NoACLGet
    /\ Configuration = DefaultConfiguration
    /\ SingleOrgCSS = FALSE
    /\ validations = <<>>
    /\ idArgs = <<>>
    /\ idResult = NoIDs

NextResend == CallResendNotification

SpecResend == InitResend /\ [][NextResend]_vars

\* the resolver on every registry and every stored destination list
InitDest ==
    /\ notification = [ObjectID |-> "obj1", Status |-> Pending]
    /\ retrieveReceived = FALSE
    /\ resendCalled = FALSE
    /\ resendResult = FALSE
    /\ destStore \in [dests : SUBSET AllDests, hasList : BOOLEAN,
                      objDests : SeqsUpTo(StoreDestinationStatus, MaxOld)]
    /\ (~destStore.hasList => destStore.objDests = <<>>)
    /\ dcall = NoCall
    /\ Running = FALSE
    /\ nodeType = CSS
    /\ apiReq = NoRequest
    /\ apiResp = <<>>
    /\ waitingOnBlockChannel = FALSE
    /\ blockedBefore = FALSE
    /\ restarts = NoRestarts
    /\ leaderDoc = NoLeaderDoc
    /\ css = NoInstances
    /\ now = 0
    /\ updateLog = <<>>
    /\ missedHeartbeat = FALSE
    /\ object = NoObject
    /\ decrements = NoDecrements
    /\ delivery = NoDelivery
    /\ lastAck = NoAck
    /\ ackLog = <<>>
    /\ received = NothingReceived
    /\ lastAppend = NoAppend
    /\ appendOrder = <<>>
    /\ storedObject = NoStoredObject
    /\ lastStore = NoUpdate
    /\ acl = NoACL
    /\ aclLog = <<>>
    /\ lastACLGet = NoACLGet
    /\ Configuration = DefaultConfiguration
    /\ SingleOrgCSS = FALSE
    /\ validations = <<>>
    /\ idArgs = <<>>
    /\ idResult = NoIDs

\* the API server after setupAPIServer, before Start
InitApi ==
    /\ notification = [ObjectID |-> "obj1", Status |-> Pending]
    /\ retrieveReceived = FALSE
    /\ resendCalled = FALSE
    /\ resendResult = FALSE
    /\ destStore = NoStore
    /\ dcall = NoCall
    /\ Running = FALSE
    /\ nodeType \in {CSS, ESS}
    /\ apiReq = NoRequest
    /\ apiResp = <<>>
    /\ waitingOnBlockChannel = FALSE
    /\ blockedBefore = FALSE
    /\ restarts = NoRestarts
    /\ leaderDoc = NoLeaderDoc
    /\ css = NoInstances
    /\ now = 0
    /\ updateLog = <<>>
    /\ missedHeartbeat = FALSE
    /\ object = NoObject
    /\ decrements = NoDecrements
    /\ delivery = NoDelivery
    /\ lastAck = NoAck
    /\ ackLog = <<>>
    /\ received = NothingReceived
    /\ lastAppend = NoAppend
    /\ appendOrder = <<>>
    /\ storedObject = NoStoredObject
    /\ lastStore = NoUpdate
    /\ acl = NoACL
    /\ aclLog = <<>>
    /\ lastACLGet = NoACLGet
    /\ Configuration = DefaultConfiguration
    /\ SingleOrgCSS = FALSE
    /\ validations = <<>>
    /\ idArgs = <<>>
    /\ idResult = NoIDs

NextDest ==
    \/ CallCreateDestinationsFromMeta
    \/ CallCreateDestinations
    \/ CallCompareDestinations

SpecDest == InitDest /\ [][NextDest]_vars

NextApi ==
    \/ Start
    \/ Stop
    \/ HandleDestinations
    \/ HandleResend
    \/ HandleObjects
    \/ HandleGetOrganizations
    \/ HandleOrganizations
    \/ HandleSecurity
    \/ FinishRequest

SpecApi == InitApi /\ [][NextApi]_vars

\* a running service, blocked in BlockUntilShutdown or not, about to be
\* sent shutdown requests
InitShutdown ==
    /\ notification = [ObjectID |-> "obj1", Status |-> Pending]
    /\ retrieveReceived = FALSE
    /\ resendCalled = FALSE
    /\ resendResult = FALSE
    /\ destStore = NoStore
    /\ dcall = NoCall
    /\ Running = TRUE
    /\ nodeType \in {CSS, ESS}
    /\ apiReq = NoRequest
    /\ apiResp = <<>>
    /\ waitingOnBlockChannel \in BOOLEAN
    /\ blockedBefore = waitingOnBlockChannel
    /\ restarts = NoRestarts
    /\ leaderDoc = NoLeaderDoc
    /\ css = NoInstances
    /\ now = 0
    /\ updateLog = <<>>
    /\ missedHeartbeat = FALSE
    /\ object = NoObject
    /\ decrements = NoDecrements
    /\ delivery = NoDelivery
    /\ lastAck = NoAck
    /\ ackLog = <<>>
    /\ received = NothingReceived
    /\ lastAppend = NoAppend
    /\ appendOrder = <<>>
    /\ storedObject = NoStoredObject
    /\ lastStore = NoUpdate
    /\ acl = NoACL
    /\ aclLog = <<>>
    /\ lastACLGet = NoACLGet
    /\ Configuration = DefaultConfiguration
    /\ SingleOrgCSS = FALSE
    /\ validations = <<>>
    /\ idArgs = <<>>
    /\ idResult = NoIDs

NextShutdown ==
    \E g \in Goroutines :
        \/ HandleShutdown(g)
        \/ ShutdownTimer(g)
        \/ ShutdownReadBlocking(g)
        \/ ShutdownClearBlocking(g)
        \/ ShutdownStop(g)
        \/ ShutdownStart(g)
        \/ ShutdownRestoreBlocking(g)

SpecShutdown == InitShutdown /\ [][NextShutdown]_vars

\* no CSS instance has started and the store has no leader record
InitLeader ==
    /\ notification = [ObjectID |-> "obj1", Status |-> Pending]
    /\ retrieveReceived = FALSE
    /\ resendCalled = FALSE
    /\ resendResult = FALSE
    /\ destStore = NoStore
    /\ dcall = NoCall
    /\ Running = FALSE
    /\ nodeType = CSS
    /\ apiReq = NoRequest
    /\ apiResp = <<>>
    /\ waitingOnBlockChannel = FALSE
    /\ blockedBefore = FALSE
    /\ restarts = NoRestarts
    /\ leaderDoc = NoLeaderDoc
    /\ css = NoInstances
    /\ now = 0
    /\ updateLog = <<>>
    /\ missedHeartbeat = FALSE
    /\ object = NoObject
    /\ decrements = NoDecrements
    /\ delivery = NoDelivery
    /\ lastAck = NoAck
    /\ ackLog = <<>>
    /\ received = NothingReceived
    /\ lastAppend = NoAppend
    /\ appendOrder = <<>>
    /\ storedObject = NoStoredObject
    /\ lastStore = NoUpdate
    /\ acl = NoACL
    /\ aclLog = <<>>
    /\ lastACLGet = NoACLGet
    /\ Configuration = DefaultConfiguration
    /\ SingleOrgCSS = FALSE
    /\ validations = <<>>
    /\ idArgs = <<>>
    /\ idResult = NoIDs

NextLeader ==
    \/ Tick
    \/ \E i \in Instances :
        \/ StartInstance(i)
        \/ ReadLeader(i)
        \/ TakeOver(i)
        \/ Heartbeat(i)
        \/ StopInstance(i)
        \/ CrashInstance(i)

SpecLeader == InitLeader /\ [][NextLeader]_vars

\* no object stored yet
InitCounters ==
    /\ notification = [ObjectID |-> "obj1", Status |-> Pending]
    /\ retrieveReceived = FALSE
    /\ resendCalled = FALSE
    /\ resendResult = FALSE
    /\ destStore = NoStore
    /\ dcall = NoCall
    /\ Running = FALSE
    /\ nodeType = CSS
    /\ apiReq = NoRequest
    /\ apiResp = <<>>
    /\ waitingOnBlockChannel = FALSE
    /\ blockedBefore = FALSE
    /\ restarts = NoRestarts
    /\ leaderDoc = NoLeaderDoc
    /\ css = NoInstances
    /\ now = 0
    /\ updateLog = <<>>
    /\ missedHeartbeat = FALSE
    /\ object = NoObject
    /\ decrements = NoDecrements
    /\ delivery = NoDelivery
    /\ lastAck = NoAck
    /\ ackLog = <<>>
    /\ received = NothingReceived
    /\ lastAppend = NoAppend
    /\ appendOrder = <<>>
    /\ storedObject = NoStoredObject
    /\ lastStore = NoUpdate
    /\ acl = NoACL
    /\ aclLog = <<>>
    /\ lastACLGet = NoACLGet
    /\ Configuration = DefaultConfiguration
    /\ SingleOrgCSS = FALSE
    /\ validations = <<>>
    /\ idArgs = <<>>
    /\ idResult = NoIDs

NextCounters ==
    \/ StoreObject
    \/ DecrementAndReturnRemainingConsumers
    \/ DecrementAndReturnRemainingReceivers
    \/ ResetObjectRemainingConsumers

SpecCounters == InitCounters /\ [][NextCounters]_vars

\* an object stored with a non-empty set of destinations, all pending
InitDelivery ==
    /\ notification = [ObjectID |-> "obj1", Status |-> Pending]
    /\ retrieveReceived = FALSE
    /\ resendCalled = FALSE
    /\ resendResult = FALSE
    /\ destStore = NoStore
    /\ dcall = NoCall
    /\ Running = FALSE
    /\ nodeType = CSS
    /\ apiReq = NoRequest
    /\ apiResp = <<>>
    /\ waitingOnBlockChannel = FALSE
    /\ blockedBefore = FALSE
    /\ restarts = NoRestarts
    /\ leaderDoc = NoLeaderDoc
    /\ css = NoInstances
    /\ now = 0
    /\ updateLog = <<>>
    /\ missedHeartbeat = FALSE
    /\ object = NoObject
    /\ decrements = NoDecrements
    /\ \E ds \in SUBSET DeliveryDests : ds # {} /\ delivery = [d \in ds |-> Pending]
    /\ lastAck = NoAck
    /\ ackLog = <<>>
    /\ received = NothingReceived
    /\ lastAppend = NoAppend
    /\ appendOrder = <<>>
    /\ storedObject = NoStoredObject
    /\ lastStore = NoUpdate
    /\ acl = NoACL
    /\ aclLog = <<>>
    /\ lastACLGet = NoACLGet
    /\ Configuration = DefaultConfiguration
    /\ SingleOrgCSS = FALSE
    /\ validations = <<>>
    /\ idArgs = <<>>
    /\ idResult = NoIDs

NextDelivery ==
    \/ AckOther
    \/ AckDeleted

SpecDelivery == InitDelivery /\ [][NextDelivery]_vars

\* the object's metadata has arrived and none of its data
InitChunks ==
    /\ notification = [ObjectID |-> "obj1", Status |-> Pending]
    /\ retrieveReceived = FALSE
    /\ resendCalled = FALSE
    /\ resendResult = FALSE
    /\ destStore = NoStore
    /\ dcall = NoCall
    /\ Running = FALSE
    /\ nodeType = ESS
    /\ apiReq = NoRequest
    /\ apiResp = <<>>
    /\ waitingOnBlockChannel = FALSE
    /\ blockedBefore = FALSE
    /\ restarts = NoRestarts
    /\ leaderDoc = NoLeaderDoc
    /\ css = NoInstances
    /\ now = 0
    /\ updateLog = <<>>
    /\ missedHeartbeat = FALSE
    /\ object = NoObject
    /\ decrements = NoDecrements
    /\ delivery = NoDelivery
    /\ lastAck = NoAck
    /\ ackLog = <<>>
    /\ received = NothingReceived
    /\ lastAppend = NoAppend
    /\ appendOrder = <<>>
    /\ storedObject = NoStoredObject
    /\ lastStore = NoUpdate
    /\ acl = NoACL
    /\ aclLog = <<>>
    /\ lastACLGet = NoACLGet
    /\ Configuration = DefaultConfiguration
    /\ SingleOrgCSS = FALSE
    /\ validations = <<>>
    /\ idArgs = <<>>
    /\ idResult = NoIDs

NextChunks == AppendChunk

SpecChunks == InitChunks /\ [][NextChunks]_vars

InitInstance ==
    /\ notification = [ObjectID |-> "obj1", Status |-> Pending]
    /\ retrieveReceived = FALSE
    /\ resendCalled = FALSE
    /\ resendResult = FALSE
    /\ destStore = NoStore
    /\ dcall = NoCall
    /\ Running = FALSE
    /\ nodeType = ESS
    /\ apiReq = NoRequest
    /\ apiResp = <<>>
    /\ waitingOnBlockChannel = FALSE
    /\ blockedBefore = FALSE
    /\ restarts = NoRestarts
    /\ leaderDoc = NoLeaderDoc
    /\ css = NoInstances
    /\ now = 0
    /\ updateLog = <<>>
    /\ missedHeartbeat = FALSE
    /\ object = NoObject
    /\ decrements = NoDecrements
    /\ delivery = NoDelivery
    /\ lastAck = NoAck
    /\ ackLog = <<>>
    /\ received = NothingReceived
    /\ lastAppend = NoAppend
    /\ appendOrder = <<>>
    /\ storedObject = NoStoredObject
    /\ lastStore = NoUpdate
    /\ acl = NoACL
    /\ aclLog = <<>>
    /\ lastACLGet = NoACLGet
    /\ Configuration = DefaultConfiguration
    /\ SingleOrgCSS = FALSE
    /\ validations = <<>>
    /\ idArgs = <<>>
    /\ idResult = NoIDs

NextInstance == UpdateObject

SpecInstance == InitInstance /\ [][NextInstance]_vars

InitACL ==
    /\ notification = [ObjectID |-> "obj1", Status |-> Pending]
    /\ retrieveReceived = FALSE
    /\ resendCalled = FALSE
    /\ resendResult = FALSE
    /\ destStore = NoStore
    /\ dcall = NoCall
    /\ Running = FALSE
    /\ nodeType = CSS
    /\ apiReq = NoRequest
    /\ apiResp = <<>>
    /\ waitingOnBlockChannel = FALSE
    /\ blockedBefore = FALSE
    /\ restarts = NoRestarts
    /\ leaderDoc = NoLeaderDoc
    /\ css = NoInstances
    /\ now = 0
    /\ updateLog = <<>>
    /\ missedHeartbeat = FALSE
    /\ object = NoObject
    /\ decrements = NoDecrements
    /\ delivery = NoDelivery
    /\ lastAck = NoAck
    /\ ackLog = <<>>
    /\ received = NothingReceived
    /\ lastAppend = NoAppend
    /\ appendOrder = <<>>
    /\ storedObject = NoStoredObject
    /\ lastStore = NoUpdate
    /\ acl = NoACL
    /\ aclLog = <<>>
    /\ lastACLGet = NoACLGet
    /\ Configuration = DefaultConfiguration
    /\ SingleOrgCSS = FALSE
    /\ validations = <<>>
    /\ idArgs = <<>>
    /\ idResult = NoIDs

NextACL == AddUsersToACL \/ RemoveUsersFromACL \/ GetACL

SpecACL == InitACL /\ [][NextACL]_vars

InitConfig ==
    /\ notification = [ObjectID |-> "obj1", Status |-> Pending]
    /\ retrieveReceived = FALSE
    /\ resendCalled = FALSE
    /\ resendResult = FALSE
    /\ destStore = NoStore
    /\ dcall = NoCall
    /\ Running = FALSE
    /\ nodeType = ESS
    /\ apiReq = NoRequest
    /\ apiResp = <<>>
    /\ waitingOnBlockChannel = FALSE
    /\ blockedBefore = FALSE
    /\ restarts = NoRestarts
    /\ leaderDoc = NoLeaderDoc
    /\ css = NoInstances
    /\ now = 0
    /\ updateLog = <<>>
    /\ missedHeartbeat = FALSE
    /\ object = NoObject
    /\ decrements = NoDecrements
    /\ delivery = NoDelivery
    /\ lastAck = NoAck
    /\ ackLog = <<>>
    /\ received = NothingReceived
    /\ lastAppend = NoAppend
    /\ appendOrder = <<>>
    /\ storedObject = NoStoredObject
    /\ lastStore = NoUpdate
    /\ acl = NoACL
    /\ aclLog = <<>>
    /\ lastACLGet = NoACLGet
    /\ Configuration \in MessagingConfigurations \cup ListeningConfigurations
    /\ SingleOrgCSS = FALSE
    /\ validations = <<>>
    /\ idArgs = <<>>
    /\ idResult = NoIDs

NextConfig == CallValidateConfig

SpecConfig == InitConfig /\ [][NextConfig]_vars

InitIDs ==
    /\ notification = [ObjectID |-> "obj1", Status |-> Pending]
    /\ retrieveReceived = FALSE
    /\ resendCalled = FALSE
    /\ resendResult = FALSE
    /\ destStore = NoStore
    /\ dcall = NoCall
    /\ Running = FALSE
    /\ nodeType = ESS
    /\ apiReq = NoRequest
    /\ apiResp = <<>>
    /\ waitingOnBlockChannel = FALSE
    /\ blockedBefore = FALSE
    /\ restarts = NoRestarts
    /\ leaderDoc = NoLeaderDoc
    /\ css = NoInstances
    /\ now = 0
    /\ updateLog = <<>>
    /\ missedHeartbeat = FALSE
    /\ object = NoObject
    /\ decrements = NoDecrements
    /\ delivery = NoDelivery
    /\ lastAck = NoAck
    /\ ackLog = <<>>
    /\ received = NothingReceived
    /\ lastAppend = NoAppend
    /\ appendOrder = <<>>
    /\ storedObject = NoStoredObject
    /\ lastStore = NoUpdate
    /\ acl = NoACL
    /\ aclLog = <<>>
    /\ lastACLGet = NoACLGet
    /\ Configuration = DefaultConfiguration
    /\ SingleOrgCSS = FALSE
    /\ validations = <<>>
    /\ idArgs \in IDTriples \X IDTriples
    /\ idResult = NoIDs

NextIDs == CreateObjectCollectionIDs \/ CreateDestinationCollectionIDs

SpecIDs == InitIDs /\ [][NextIDs]_vars

====
